---- MODULE Spec2Model ----
(***************************************************************************)
(* Model of the Dameng MCP database layer (src/database.py):               *)
(*   - SQLValidator: validate_sql, _extract_first_keyword,                 *)
(*     _validate_readonly, _validate_limited_write, get_error_message;     *)
(*   - DamengDatabase: get_connection, execute_query, execute_safe_query,  *)
(*     _is_schema_allowed, the catalog operations and test_connection.     *)
(* SQL text is a sequence of one-character strings, so that upper(),       *)
(* strip(), split(), the `in` substring test, str.startswith and the       *)
(* regular expressions of _validate_readonly are computed character by     *)
(* character, as Python computes them.                                     *)
(***************************************************************************)
EXTENDS Integers, Sequences, FiniteSets, TLC

VARIABLES
    sql,             \* the SQL text of the call under consideration
    security_mode,   \* self.config.security_mode
    max_result_rows, \* self.config.max_result_rows
    verdict,         \* result of validate_sql, in a 1-tuple; <<>> before
    message,         \* result of get_error_message, in a 1-tuple; <<>> before
    entry,           \* the method of DamengDatabase the caller invoked
    pc,              \* the position of the call
    conn,            \* the connection of the call: "none", "open", "closed"
    executed,        \* the statements handed to cursor.execute, in order
    commits,         \* the number of conn.commit() calls that returned
    outcome,         \* what the call returned or raised
    allowed_schemas, \* self.config.allowed_schemas
    schema,          \* the schema argument of the call
    stage,           \* what the statement under way is run for: "direct" for
                     \* the caller, "probe" for _is_schema_allowed, "main"
                     \* for a catalog operation
    schema_allowed,  \* result of _is_schema_allowed, in a 1-tuple; <<>> before
    opened,          \* the number of connections dmPython.connect returned
    closed,          \* the number of conn.close() calls
    uncommitted,     \* a statement ran on the connection since its last commit
    fetched,         \* the row counts fetchall returned, in order
    warnings,        \* the number of truncation warnings written to the log
    failures,        \* the exceptions raised inside the call, in order
    history,         \* the calls of _is_schema_allowed the instance of
                     \* get_db_instance has answered, in order
    handler          \* the call of handle_call_tool: its tool name, its
                     \* arguments, its position and its response

config_vars == <<security_mode, max_result_rows, allowed_schemas>>
request_vars == <<entry, schema, stage>>
conn_vars == <<conn, opened, closed, uncommitted>>
log_vars == <<executed, commits, fetched, warnings, failures>>
call_vars == <<request_vars, pc, conn_vars, log_vars, schema_allowed, outcome>>
server_vars == <<history, handler>>
vars == <<sql, config_vars, verdict, message, call_vars, server_vars>>

----------------------------------------------------------------------------
(* Bounds of the model.                                                    *)

\* largest number of fragments after the head of a generated SQL text
MaxFrags == 2

\* the same for the SQL texts handed to execute_query and execute_safe_query
MaxExecFrags == 1

\* largest number of rows the backend returns, and largest max_result_rows
MaxRows == 2

\* largest number of calls of _is_schema_allowed one instance answers
MaxCalls == 2

----------------------------------------------------------------------------
(* SecurityMode (config.SecurityMode, imported at src/database.py:13).     *)

READONLY == "readonly"
LIMITED_WRITE == "limited_write"
FULL_ACCESS == "full_access"
SecurityMode == {READONLY, LIMITED_WRITE, FULL_ACCESS}

----------------------------------------------------------------------------
(* Characters and the Python string primitives the validator uses.         *)

LowerLetters ==
    <<"a","b","c","d","e","f","g","h","i","j","k","l","m",
      "n","o","p","q","r","s","t","u","v","w","x","y","z">>
UpperLetters ==
    <<"A","B","C","D","E","F","G","H","I","J","K","L","M",
      "N","O","P","Q","R","S","T","U","V","W","X","Y","Z">>
Digits == {"0","1","2","3","4","5","6","7","8","9"}

Range(s) == {s[i] : i \in DOMAIN s}

\* str.isspace() / the class \s of module re, on the characters of the model
SpaceChars == {" ", "\t", "\n", "\r", "\f"}
IsSpace(c) == c \in SpaceChars

\* the class \w of module re
WordChars ==
    Range(LowerLetters) \cup Range(UpperLetters) \cup Digits \cup {"_"}
IsWordChar(c) == c \in WordChars

\* str.upper() on one character
UpperOfLower ==
    [c \in Range(LowerLetters) |->
        UpperLetters[CHOOSE i \in DOMAIN LowerLetters : LowerLetters[i] = c]]
UpperChar(c) == IF c \in DOMAIN UpperOfLower THEN UpperOfLower[c] ELSE c

\* str.upper()
upper(s) == [i \in DOMAIN s |-> UpperChar(s[i])]

\* str.strip(): drop leading and trailing whitespace
strip(s) ==
    IF \A i \in DOMAIN s : IsSpace(s[i]) THEN <<>>
    ELSE LET lo == CHOOSE i \in 1..Len(s) :
                       /\ ~IsSpace(s[i])
                       /\ \A j \in 1..(i - 1) : IsSpace(s[j])
             back == CHOOSE k \in 0..(Len(s) - 1) :
                       /\ ~IsSpace(s[Len(s) - k])
                       /\ \A j \in 0..(k - 1) : IsSpace(s[Len(s) - j])
         IN  SubSeq(s, lo, Len(s) - back)

\* str.split() with no argument: the maximal runs of non-whitespace
\* SplitFrom(s, i): the runs that start at position i or later
RECURSIVE SplitFrom(_, _)
SplitFrom(s, i) ==
    IF \A j \in i..Len(s) : IsSpace(s[j])
    THEN <<>>
    ELSE LET lo == CHOOSE j \in i..Len(s) :
                       /\ ~IsSpace(s[j])
                       /\ \A k \in i..(j - 1) : IsSpace(s[k])
             hi == CHOOSE j \in lo..Len(s) :
                       /\ \A k \in lo..j : ~IsSpace(s[k])
                       /\ j = Len(s) \/ IsSpace(s[j + 1])
         IN  <<SubSeq(s, lo, hi)>> \o SplitFrom(s, hi + 1)

split(s) == SplitFrom(s, 1)

\* the operator `needle in haystack` on strings
Contains(haystack, needle) ==
    \E i \in 1..(Len(haystack) - Len(needle) + 1) :
        SubSeq(haystack, i, i + Len(needle) - 1) = needle

\* str.startswith(prefix)
startswith(s, prefix) ==
    /\ Len(prefix) <= Len(s)
    /\ SubSeq(s, 1, Len(prefix)) = prefix

----------------------------------------------------------------------------
(* The fragment of module re used by _validate_readonly: a pattern is a    *)
(* sequence of atoms \b, a literal, \s+ and \w+.                           *)

B == [k |-> "b", s |-> <<>>]
SP == [k |-> "s+", s |-> <<>>]
WD == [k |-> "w+", s |-> <<>>]
Lit(word) == [k |-> "lit", s |-> word]

\* \b at position p: exactly one of the characters before and at p is \w
IsBoundary(t, p) ==
    LET before == p > 1 /\ IsWordChar(t[p - 1])
        after == p <= Len(t) /\ IsWordChar(t[p])
    IN  before # after

RECURSIVE MatchFrom(_, _, _, _)
MatchFrom(pat, i, t, p) ==
    IF i > Len(pat) THEN TRUE
    ELSE LET a == pat[i] IN
         CASE a.k = "b" ->
                IsBoundary(t, p) /\ MatchFrom(pat, i + 1, t, p)
           [] a.k = "lit" ->
                /\ p + Len(a.s) - 1 <= Len(t)
                /\ SubSeq(t, p, p + Len(a.s) - 1) = a.s
                /\ MatchFrom(pat, i + 1, t, p + Len(a.s))
           [] a.k = "s+" ->
                \E n \in 1..(Len(t) - p + 1) :
                    /\ \A j \in p..(p + n - 1) : IsSpace(t[j])
                    /\ MatchFrom(pat, i + 1, t, p + n)
           [] a.k = "w+" ->
                \E n \in 1..(Len(t) - p + 1) :
                    /\ \A j \in p..(p + n - 1) : IsWordChar(t[j])
                    /\ MatchFrom(pat, i + 1, t, p + n)

\* re.search(pattern, text) is not None
re_search(pat, t) == \E p \in 1..(Len(t) + 1) : MatchFrom(pat, 1, t, p)

----------------------------------------------------------------------------
(* Keywords.                                                               *)

KW_SELECT == <<"S","E","L","E","C","T">>
KW_WITH == <<"W","I","T","H">>
KW_SHOW == <<"S","H","O","W">>
KW_DESCRIBE == <<"D","E","S","C","R","I","B","E">>
KW_EXPLAIN == <<"E","X","P","L","A","I","N">>
KW_ANALYZE == <<"A","N","A","L","Y","Z","E">>
KW_INSERT == <<"I","N","S","E","R","T">>
KW_UPDATE == <<"U","P","D","A","T","E">>
KW_DELETE == <<"D","E","L","E","T","E">>
KW_DROP == <<"D","R","O","P">>
KW_CREATE == <<"C","R","E","A","T","E">>
KW_ALTER == <<"A","L","T","E","R">>
KW_TRUNCATE == <<"T","R","U","N","C","A","T","E">>
KW_GRANT == <<"G","R","A","N","T">>
KW_REVOKE == <<"R","E","V","O","K","E">>
KW_TABLE == <<"T","A","B","L","E">>
KW_FROM == <<"F","R","O","M">>
KW_INTO == <<"I","N","T","O">>
KW_SET == <<"S","E","T">>

READONLY_OPERATIONS == {KW_SELECT, KW_WITH, KW_SHOW, KW_DESCRIBE, KW_EXPLAIN, KW_ANALYZE}
WRITE_OPERATIONS == {KW_INSERT, KW_UPDATE}
DANGEROUS_OPERATIONS == {KW_DELETE, KW_DROP, KW_CREATE, KW_ALTER, KW_TRUNCATE, KW_GRANT, KW_REVOKE}

----------------------------------------------------------------------------
(* SQLValidator (src/database.py:20-128).                                  *)

\* _extract_first_keyword that returns the last word instead of the first
_extract_first_keyword_last(sql_upper) ==
    LET words == split(sql_upper)
    IN  IF words # <<>> THEN words[Len(words)] ELSE <<>>

\* words[0] if words else ""
_extract_first_keyword(sql_upper) ==
    LET words == split(sql_upper)
    IN  IF words # <<>> THEN words[1] ELSE <<>>

\* dangerous_patterns without its first entry, DROP TABLE
dangerous_patterns_without_drop ==
    << <<B, Lit(KW_TRUNCATE), SP, Lit(KW_TABLE), B>>,
       <<B, Lit(KW_DELETE), SP, Lit(KW_FROM), B>>,
       <<B, Lit(KW_INSERT), SP, Lit(KW_INTO), B>>,
       <<B, Lit(KW_UPDATE), SP, WD, SP, Lit(KW_SET), B>>,
       <<B, Lit(KW_CREATE), SP, Lit(KW_TABLE), B>>,
       <<B, Lit(KW_ALTER), SP, Lit(KW_TABLE), B>> >>

\* the list dangerous_patterns of _validate_readonly, in its order
dangerous_patterns ==
    << <<B, Lit(KW_DROP), SP, Lit(KW_TABLE), B>>,
       <<B, Lit(KW_TRUNCATE), SP, Lit(KW_TABLE), B>>,
       <<B, Lit(KW_DELETE), SP, Lit(KW_FROM), B>>,
       <<B, Lit(KW_INSERT), SP, Lit(KW_INTO), B>>,
       <<B, Lit(KW_UPDATE), SP, WD, SP, Lit(KW_SET), B>>,
       <<B, Lit(KW_CREATE), SP, Lit(KW_TABLE), B>>,
       <<B, Lit(KW_ALTER), SP, Lit(KW_TABLE), B>> >>

\* _validate_readonly with the phrase scan applied to every read-only
\* keyword, the keyword scan of the else branch dropped
_validate_readonly_phrases_only(first_keyword, sql_upper) ==
    IF first_keyword \notin READONLY_OPERATIONS
    THEN FALSE
    ELSE ~\E i \in DOMAIN dangerous_patterns :
             re_search(dangerous_patterns[i], sql_upper)

\* _validate_readonly with the keyword scan of the else branch applied to
\* SELECT statements too
_validate_readonly_keywords_only(first_keyword, sql_upper) ==
    IF first_keyword \notin READONLY_OPERATIONS
    THEN FALSE
    ELSE ~\E forbidden \in WRITE_OPERATIONS \cup DANGEROUS_OPERATIONS :
             Contains(sql_upper, forbidden)

_validate_readonly(first_keyword, sql_upper) ==
    IF first_keyword \notin READONLY_OPERATIONS
    THEN FALSE
    ELSE IF first_keyword = KW_SELECT
         THEN ~\E i \in DOMAIN dangerous_patterns :
                  re_search(dangerous_patterns[i], sql_upper)
         ELSE LET forbidden_in_readonly ==
                      WRITE_OPERATIONS \cup DANGEROUS_OPERATIONS
              IN  ~\E forbidden \in forbidden_in_readonly :
                      Contains(sql_upper, forbidden)

\* _validate_limited_write with the phrase scan of read-only mode in place
\* of its keyword scan
_validate_limited_write_phrases(first_keyword, sql_upper) ==
    LET allowed_operations == READONLY_OPERATIONS \cup WRITE_OPERATIONS
    IN  IF first_keyword \notin allowed_operations
        THEN FALSE
        ELSE ~\E i \in DOMAIN dangerous_patterns :
                 re_search(dangerous_patterns[i], sql_upper)

\* _validate_limited_write with the dangerous keywords searched as whole
\* words instead of substrings
_validate_limited_write_words(first_keyword, sql_upper) ==
    LET allowed_operations == READONLY_OPERATIONS \cup WRITE_OPERATIONS
    IN  IF first_keyword \notin allowed_operations
        THEN FALSE
        ELSE ~\E dangerous \in DANGEROUS_OPERATIONS :
                 re_search(<<B, Lit(dangerous), B>>, sql_upper)

\* _validate_limited_write without the test of the first keyword
_validate_limited_write_scan_only(first_keyword, sql_upper) ==
    ~\E dangerous \in DANGEROUS_OPERATIONS : Contains(sql_upper, dangerous)

_validate_limited_write(first_keyword, sql_upper) ==
    LET allowed_operations == READONLY_OPERATIONS \cup WRITE_OPERATIONS
    IN  IF first_keyword \notin allowed_operations
        THEN FALSE
        ELSE ~\E dangerous \in DANGEROUS_OPERATIONS :
                 Contains(sql_upper, dangerous)

\* validate_sql with FULL_ACCESS judged like LIMITED_WRITE
validate_sql_full_as_limited(text, mode) ==
    LET sql_upper == strip(upper(text))
        first_keyword == _extract_first_keyword(sql_upper)
    IN  IF mode = READONLY
        THEN _validate_readonly(first_keyword, sql_upper)
        ELSE _validate_limited_write(first_keyword, sql_upper)

validate_sql(text, mode) ==
    LET sql_upper == strip(upper(text))
        first_keyword == _extract_first_keyword(sql_upper)
    IN  IF mode = READONLY
        THEN _validate_readonly(first_keyword, sql_upper)
        ELSE IF mode = LIMITED_WRITE
             THEN _validate_limited_write(first_keyword, sql_upper)
             ELSE IF mode = FULL_ACCESS
                  THEN TRUE
                  ELSE FALSE

\* The fixed parts of the messages of get_error_message; the message is the
\* fixed part followed by the first keyword.
MSG_READONLY_WRITE == "readonly: write operation forbidden"
MSG_READONLY_DANGEROUS == "readonly: dangerous operation forbidden"
MSG_READONLY_UNSUPPORTED == "readonly: unsupported operation"
MSG_LIMITED_DANGEROUS == "limited_write: dangerous operation forbidden"
MSG_LIMITED_UNSUPPORTED == "limited_write: unsupported operation"
MSG_FORBIDDEN == "operation forbidden by the security policy"

get_error_message(text, mode) ==
    LET sql_upper == strip(upper(text))
        first_keyword == _extract_first_keyword(sql_upper)
    IN  IF mode = READONLY
        THEN IF first_keyword \in WRITE_OPERATIONS
             THEN <<MSG_READONLY_WRITE, first_keyword>>
             ELSE IF first_keyword \in DANGEROUS_OPERATIONS
                  THEN <<MSG_READONLY_DANGEROUS, first_keyword>>
                  ELSE <<MSG_READONLY_UNSUPPORTED, first_keyword>>
        ELSE IF mode = LIMITED_WRITE
             THEN IF first_keyword \in DANGEROUS_OPERATIONS
                  THEN <<MSG_LIMITED_DANGEROUS, first_keyword>>
                  ELSE <<MSG_LIMITED_UNSUPPORTED, first_keyword>>
             ELSE <<MSG_FORBIDDEN, <<>> >>

----------------------------------------------------------------------------
(* The SQL texts a caller submits: a head followed by at most MaxFrags     *)
(* fragments.                                                              *)

Heads ==
    READONLY_OPERATIONS \cup WRITE_OPERATIONS \cup DANGEROUS_OPERATIONS
    \cup { <<>>,                                \* the empty string
           <<" ">>,                             \* whitespace only
           <<"x">>,                             \* an unknown keyword
           <<"s","e","l","e","c","t">>,         \* lower case
           <<" ">> \o KW_SELECT }               \* leading whitespace

Frags ==
    { <<" ">> \o k : k \in (WRITE_OPERATIONS \cup DANGEROUS_OPERATIONS)
                            \ {KW_REVOKE} }
    \cup { <<" ">> \o KW_TABLE, <<" ">> \o KW_FROM,
           <<"\n", " ">> \o KW_INTO,            \* a line break and a blank
           <<" ", "x">>,                        \* an identifier
           <<" ", "x", " ">> \o KW_SET,         \* ... followed by SET
           <<" ", "x">> \o KW_DROP,             \* an identifier ending in DROP
           <<"_", "x">>,                        \* lengthens the word before it
           <<";">> }

RECURSIVE Bodies(_)
Bodies(n) ==
    IF n = 0 THEN { <<>> }
    ELSE Bodies(n - 1) \cup { b \o f : b \in Bodies(n - 1), f \in Frags }

SqlTexts == { h \o b : h \in Heads, b \in Bodies(MaxFrags) }

----------------------------------------------------------------------------
(* The validator on its own: validate_sql, then, as in execute_query,      *)
(* get_error_message after a denial.                                       *)

Unset == <<>>
Result(x) == <<x>>

NoOutcome == [kind |-> "none"]

\* no call of handle_call_tool is under way
NoHandler ==
    [name |-> "none", arguments |-> Unset, at |-> "idle",
     structure |-> Unset, response |-> Unset]

InitValidator ==
    /\ sql \in SqlTexts
    /\ security_mode \in SecurityMode
    /\ max_result_rows = MaxRows
    /\ allowed_schemas = {<<"*">>}
    /\ verdict = Unset
    /\ message = Unset
    /\ entry = "none"
    /\ schema = <<>>
    /\ stage = "none"
    /\ pc = "idle"
    /\ conn = "none"
    /\ opened = 0
    /\ closed = 0
    /\ uncommitted = FALSE
    /\ executed = <<>>
    /\ commits = 0
    /\ fetched = <<>>
    /\ warnings = 0
    /\ failures = <<>>
    /\ schema_allowed = Unset
    /\ outcome = NoOutcome
    /\ history = <<>>
    /\ handler = NoHandler

CallValidateSql ==
    /\ verdict = Unset
    /\ verdict' = Result(validate_sql(sql, security_mode))
    /\ UNCHANGED <<sql, config_vars, server_vars, message, call_vars>>

CallGetErrorMessage ==
    /\ verdict = Result(FALSE)
    /\ message = Unset
    /\ message' = Result(get_error_message(sql, security_mode))
    /\ UNCHANGED <<sql, config_vars, server_vars, verdict, call_vars>>

NextValidator == CallValidateSql \/ CallGetErrorMessage

SpecValidator == InitValidator /\ [][NextValidator]_vars

----------------------------------------------------------------------------
(* DamengDatabase (src/database.py:131-403): get_connection,               *)
(* execute_query, execute_safe_query, the schema check and the catalog     *)
(* operations, one action per step of a call.                              *)

ExecTexts == { h \o b : h \in Heads, b \in Bodies(MaxExecFrags) }

\* the statements of the direct calls made next to the catalog operations
StatementSamples ==
    { k \o <<" ", "x">> : k \in {KW_SELECT, KW_ANALYZE, KW_UPDATE, KW_DROP} }

\* schema names a caller passes, and the configured lists of schemas
NAME_SYSDBA == <<"S","Y","S","D","B","A">>
NAME_SYSDBA_LOWER == <<"s","y","s","d","b","a">>
NAME_OTHER == <<"O","T","H","E","R">>
SchemaNames == {NAME_SYSDBA, NAME_SYSDBA_LOWER, NAME_OTHER}

ALL_SCHEMAS == { <<"*">> }
AUTO_DISCOVER == { <<"a","u","t","o">> }
AllowedSchemasConfigs ==
    {ALL_SCHEMAS, AUTO_DISCOVER, {NAME_SYSDBA}, {NAME_SYSDBA, NAME_OTHER}}

\* config.is_readonly_mode()
is_readonly_mode == security_mode = READONLY

\* config.is_all_schemas_allowed()
is_all_schemas_allowed == allowed_schemas = ALL_SCHEMAS

\* config.is_auto_discover_schemas()
is_auto_discover_schemas == allowed_schemas = AUTO_DISCOVER

\* "SET SESSION AUTOCOMMIT = 0", the statement of get_connection
SET_SESSION ==
    <<"S","E","T"," ","S","E","S","S","I","O","N"," ",
      "A","U","T","O","C","O","M","M","I","T"," ","="," ","0">>

\* test_sql of _is_schema_allowed, character by character
SQL_SCHEMA_PROBE ==
    <<"\n"," "," "," "," "," "," "," "," "," "," "," "," "," ",
      " "," "," ","S","E","L","E","C","T"," ","U","S","E","R",
      "N","A","M","E"," ","\n"," "," "," "," "," "," "," "," ",
      " "," "," "," "," "," "," "," ","F","R","O","M"," ","A",
      "L","L","_","U","S","E","R","S"," ","\n"," "," "," "," ",
      " "," "," "," "," "," "," "," "," "," "," "," ","W","H",
      "E","R","E"," ","U","S","E","R","N","A","M","E"," ","=",
      " ","?","\n"," "," "," "," "," "," "," "," "," "," "," ",
      " "," "," "," "," ">>

\* sql of get_all_tables, character by character
SQL_ALL_TABLES ==
    <<"\n"," "," "," "," "," "," "," "," ","S","E","L","E","C",
      "T"," ","\n"," "," "," "," "," "," "," "," "," "," "," ",
      " ","O","W","N","E","R"," ","A","S"," ","s","c","h","e",
      "m","a","n","a","m","e",",","\n"," "," "," "," "," "," ",
      " "," "," "," "," "," ","T","A","B","L","E","_","N","A",
      "M","E"," ","A","S"," ","t","a","b","l","e","n","a","m",
      "e",",","\n"," "," "," "," "," "," "," "," "," "," "," ",
      " ","O","W","N","E","R"," ","A","S"," ","t","a","b","l",
      "e","o","w","n","e","r",",","\n"," "," "," "," "," "," ",
      " "," "," "," "," "," ","'","Y","E","S","'"," ","A","S",
      " ","h","a","s","i","n","d","e","x","e","s",",","\n"," ",
      " "," "," "," "," "," "," "," "," "," "," ","'","N","O",
      "'"," ","A","S"," ","h","a","s","r","u","l","e","s",",",
      "\n"," "," "," "," "," "," "," "," "," "," "," "," ","'",
      "N","O","'"," ","A","S"," ","h","a","s","t","r","i","g",
      "g","e","r","s",",","\n"," "," "," "," "," "," "," "," ",
      " "," "," "," ","'","N","O","'"," ","A","S"," ","r","o",
      "w","s","e","c","u","r","i","t","y","\n"," "," "," "," ",
      " "," "," "," ","F","R","O","M"," ","A","L","L","_","T",
      "A","B","L","E","S"," ","\n"," "," "," "," "," "," "," ",
      " ","W","H","E","R","E"," ","O","W","N","E","R"," ","=",
      " ","?"," ","\n"," "," "," "," "," "," "," "," ","O","R",
      "D","E","R"," ","B","Y"," ","T","A","B","L","E","_","N",
      "A","M","E","\n"," "," "," "," "," "," "," "," ">>

\* sql of get_table_structure, character by character
SQL_TABLE_STRUCTURE ==
    <<"\n"," "," "," "," "," "," "," "," ","S","E","L","E","C",
      "T"," ","\n"," "," "," "," "," "," "," "," "," "," "," ",
      " ","c",".","C","O","L","U","M","N","_","N","A","M","E",
      " ","a","s"," ","c","o","l","u","m","n","_","n","a","m",
      "e",",","\n"," "," "," "," "," "," "," "," "," "," "," ",
      " ","c",".","D","A","T","A","_","T","Y","P","E"," ","a",
      "s"," ","d","a","t","a","_","t","y","p","e",",","\n"," ",
      " "," "," "," "," "," "," "," "," "," "," ","c",".","D",
      "A","T","A","_","L","E","N","G","T","H"," ","a","s"," ",
      "c","h","a","r","a","c","t","e","r","_","m","a","x","i",
      "m","u","m","_","l","e","n","g","t","h",",","\n"," "," ",
      " "," "," "," "," "," "," "," "," "," ","c",".","D","A",
      "T","A","_","P","R","E","C","I","S","I","O","N"," ","a",
      "s"," ","n","u","m","e","r","i","c","_","p","r","e","c",
      "i","s","i","o","n",",","\n"," "," "," "," "," "," "," ",
      " "," "," "," "," ","c",".","D","A","T","A","_","S","C",
      "A","L","E"," ","a","s"," ","n","u","m","e","r","i","c",
      "_","s","c","a","l","e",",","\n"," "," "," "," "," "," ",
      " "," "," "," "," "," ","C","A","S","E"," ","W","H","E",
      "N"," ","c",".","N","U","L","L","A","B","L","E"," ","=",
      " ","'","Y","'"," ","T","H","E","N"," ","'","Y","E","S",
      "'"," ","E","L","S","E"," ","'","N","O","'"," ","E","N",
      "D"," ","a","s"," ","i","s","_","n","u","l","l","a","b",
      "l","e",",","\n"," "," "," "," "," "," "," "," "," "," ",
      " "," ","c",".","D","A","T","A","_","D","E","F","A","U",
      "L","T"," ","a","s"," ","c","o","l","u","m","n","_","d",
      "e","f","a","u","l","t",",","\n"," "," "," "," "," "," ",
      " "," "," "," "," "," ","c",".","C","O","L","U","M","N",
      "_","I","D"," ","a","s"," ","o","r","d","i","n","a","l",
      "_","p","o","s","i","t","i","o","n",",","\n"," "," "," ",
      " "," "," "," "," "," "," "," "," ","C","A","S","E"," ",
      "\n"," "," "," "," "," "," "," "," "," "," "," "," "," ",
      " "," "," ","W","H","E","N"," ","p","k",".","C","O","L",
      "U","M","N","_","N","A","M","E"," ","I","S"," ","N","O",
      "T"," ","N","U","L","L"," ","T","H","E","N"," ","'","Y",
      "E","S","'","\n"," "," "," "," "," "," "," "," "," "," ",
      " "," "," "," "," "," ","E","L","S","E"," ","'","N","O",
      "'","\n"," "," "," "," "," "," "," "," "," "," "," "," ",
      "E","N","D"," ","a","s"," ","i","s","_","p","r","i","m",
      "a","r","y","_","k","e","y",",","\n"," "," "," "," "," ",
      " "," "," "," "," "," "," ","c",".","C","O","M","M","E",
      "N","T","S"," ","a","s"," ","c","o","l","u","m","n","_",
      "c","o","m","m","e","n","t","\n"," "," "," "," "," "," ",
      " "," ","F","R","O","M"," ","A","L","L","_","T","A","B",
      "_","C","O","L","U","M","N","S"," ","c","\n"," "," "," ",
      " "," "," "," "," ","L","E","F","T"," ","J","O","I","N",
      " ","(","\n"," "," "," "," "," "," "," "," "," "," "," ",
      " ","S","E","L","E","C","T"," ","c","c",".","C","O","L",
      "U","M","N","_","N","A","M","E","\n"," "," "," "," "," ",
      " "," "," "," "," "," "," ","F","R","O","M"," ","A","L",
      "L","_","C","O","N","S","T","R","A","I","N","T","S"," ",
      "c","o","n","s","\n"," "," "," "," "," "," "," "," "," ",
      " "," "," ","I","N","N","E","R"," ","J","O","I","N"," ",
      "A","L","L","_","C","O","N","S","_","C","O","L","U","M",
      "N","S"," ","c","c"," ","O","N"," ","c","o","n","s",".",
      "C","O","N","S","T","R","A","I","N","T","_","N","A","M",
      "E"," ","="," ","c","c",".","C","O","N","S","T","R","A",
      "I","N","T","_","N","A","M","E","\n"," "," "," "," "," ",
      " "," "," "," "," "," "," ","W","H","E","R","E"," ","c",
      "o","n","s",".","C","O","N","S","T","R","A","I","N","T",
      "_","T","Y","P","E"," ","="," ","'","P","'","\n"," "," ",
      " "," "," "," "," "," "," "," "," "," "," "," "," "," ",
      "A","N","D"," ","c","o","n","s",".","T","A","B","L","E",
      "_","N","A","M","E"," ","="," ","?","\n"," "," "," "," ",
      " "," "," "," "," "," "," "," "," "," "," "," ","A","N",
      "D"," ","c","o","n","s",".","O","W","N","E","R"," ","=",
      " ","?","\n"," "," "," "," "," "," "," "," ",")"," ","p",
      "k"," ","O","N"," ","c",".","C","O","L","U","M","N","_",
      "N","A","M","E"," ","="," ","p","k",".","C","O","L","U",
      "M","N","_","N","A","M","E","\n"," "," "," "," "," "," ",
      " "," ","W","H","E","R","E"," ","c",".","T","A","B","L",
      "E","_","N","A","M","E"," ","="," ","?","\n"," "," "," ",
      " "," "," "," "," "," "," "," "," ","A","N","D"," ","c",
      ".","O","W","N","E","R"," ","="," ","?","\n"," "," "," ",
      " "," "," "," "," ","O","R","D","E","R"," ","B","Y"," ",
      "c",".","C","O","L","U","M","N","_","I","D","\n"," "," ",
      " "," "," "," "," "," ">>

\* sql of get_table_indexes, character by character
SQL_TABLE_INDEXES ==
    <<"\n"," "," "," "," "," "," "," "," "," "," "," "," ","S",
      "E","L","E","C","T"," ","\n"," "," "," "," "," "," "," ",
      " "," "," "," "," "," "," "," "," ","I","N","D","E","X",
      "_","N","A","M","E"," ","a","s"," ","i","n","d","e","x",
      "n","a","m","e",",","\n"," "," "," "," "," "," "," "," ",
      " "," "," "," "," "," "," "," ","'","C","R","E","A","T",
      "E"," ","I","N","D","E","X"," ","'"," ","|","|"," ","I",
      "N","D","E","X","_","N","A","M","E"," ","|","|"," ","'",
      " ","O","N"," ","'"," ","|","|"," ","T","A","B","L","E",
      "_","N","A","M","E"," ","a","s"," ","i","n","d","e","x",
      "d","e","f",",","\n"," "," "," "," "," "," "," "," "," ",
      " "," "," "," "," "," "," ","C","A","S","E"," ","W","H",
      "E","N"," ","U","N","I","Q","U","E","N","E","S","S"," ",
      "="," ","'","U","N","I","Q","U","E","'"," ","T","H","E",
      "N"," ","'","Y","E","S","'"," ","E","L","S","E"," ","'",
      "N","O","'"," ","E","N","D"," ","a","s"," ","i","s","_",
      "u","n","i","q","u","e","\n"," "," "," "," "," "," "," ",
      " "," "," "," "," ","F","R","O","M"," ","A","L","L","_",
      "I","N","D","E","X","E","S"," ","\n"," "," "," "," "," ",
      " "," "," "," "," "," "," ","W","H","E","R","E"," ","T",
      "A","B","L","E","_","N","A","M","E"," ","="," ","?"," ",
      "\n"," "," "," "," "," "," "," "," "," "," "," "," "," ",
      " "," "," ","A","N","D"," ","O","W","N","E","R"," ","=",
      " ","?","\n"," "," "," "," "," "," "," "," "," "," "," ",
      " ","O","R","D","E","R"," ","B","Y"," ","I","N","D","E",
      "X","_","N","A","M","E","\n"," "," "," "," "," "," "," ",
      " "," "," "," "," ">>

\* sql of get_table_constraints, character by character
SQL_TABLE_CONSTRAINTS ==
    <<"\n"," "," "," "," "," "," "," "," "," "," "," "," ","S",
      "E","L","E","C","T"," ","\n"," "," "," "," "," "," "," ",
      " "," "," "," "," "," "," "," "," ","c","o","n","s",".",
      "C","O","N","S","T","R","A","I","N","T","_","N","A","M",
      "E"," ","a","s"," ","c","o","n","s","t","r","a","i","n",
      "t","_","n","a","m","e",",","\n"," "," "," "," "," "," ",
      " "," "," "," "," "," "," "," "," "," ","c","o","n","s",
      ".","C","O","N","S","T","R","A","I","N","T","_","T","Y",
      "P","E"," ","a","s"," ","c","o","n","s","t","r","a","i",
      "n","t","_","t","y","p","e",",","\n"," "," "," "," "," ",
      " "," "," "," "," "," "," "," "," "," "," ","c","c",".",
      "C","O","L","U","M","N","_","N","A","M","E"," ","a","s",
      " ","c","o","l","u","m","n","_","n","a","m","e",",","\n",
      " "," "," "," "," "," "," "," "," "," "," "," "," "," ",
      " "," ","C","A","S","E"," ","\n"," "," "," "," "," "," ",
      " "," "," "," "," "," "," "," "," "," "," "," "," "," ",
      "W","H","E","N"," ","c","o","n","s",".","C","O","N","S",
      "T","R","A","I","N","T","_","T","Y","P","E"," ","="," ",
      "'","R","'"," ","T","H","E","N","\n"," "," "," "," "," ",
      " "," "," "," "," "," "," "," "," "," "," "," "," "," ",
      " "," "," "," "," ","r","e","f","_","c","o","n","s",".",
      "O","W","N","E","R","|","|","'",".","'","|","|","r","e",
      "f","_","c","o","n","s",".","T","A","B","L","E","_","N",
      "A","M","E","|","|","'",".","'","|","|","r","e","f","_",
      "c","c",".","C","O","L","U","M","N","_","N","A","M","E",
      "\n"," "," "," "," "," "," "," "," "," "," "," "," "," ",
      " "," "," "," "," "," "," ","E","L","S","E"," ","N","U",
      "L","L","\n"," "," "," "," "," "," "," "," "," "," "," ",
      " "," "," "," "," ","E","N","D"," ","a","s"," ","f","o",
      "r","e","i","g","n","_","k","e","y","_","r","e","f","e",
      "r","e","n","c","e","s","\n"," "," "," "," "," "," "," ",
      " "," "," "," "," ","F","R","O","M"," ","A","L","L","_",
      "C","O","N","S","T","R","A","I","N","T","S"," ","c","o",
      "n","s","\n"," "," "," "," "," "," "," "," "," "," "," ",
      " ","L","E","F","T"," ","J","O","I","N"," ","A","L","L",
      "_","C","O","N","S","_","C","O","L","U","M","N","S"," ",
      "c","c"," ","O","N"," ","c","o","n","s",".","C","O","N",
      "S","T","R","A","I","N","T","_","N","A","M","E"," ","=",
      " ","c","c",".","C","O","N","S","T","R","A","I","N","T",
      "_","N","A","M","E"," ","A","N","D"," ","c","o","n","s",
      ".","O","W","N","E","R"," ","="," ","c","c",".","O","W",
      "N","E","R","\n"," "," "," "," "," "," "," "," "," "," ",
      " "," ","L","E","F","T"," ","J","O","I","N"," ","A","L",
      "L","_","C","O","N","S","T","R","A","I","N","T","S"," ",
      "r","e","f","_","c","o","n","s"," ","O","N"," ","c","o",
      "n","s",".","R","_","C","O","N","S","T","R","A","I","N",
      "T","_","N","A","M","E"," ","="," ","r","e","f","_","c",
      "o","n","s",".","C","O","N","S","T","R","A","I","N","T",
      "_","N","A","M","E","\n"," "," "," "," "," "," "," "," ",
      " "," "," "," ","L","E","F","T"," ","J","O","I","N"," ",
      "A","L","L","_","C","O","N","S","_","C","O","L","U","M",
      "N","S"," ","r","e","f","_","c","c"," ","O","N"," ","r",
      "e","f","_","c","o","n","s",".","C","O","N","S","T","R",
      "A","I","N","T","_","N","A","M","E"," ","="," ","r","e",
      "f","_","c","c",".","C","O","N","S","T","R","A","I","N",
      "T","_","N","A","M","E"," ","A","N","D"," ","r","e","f",
      "_","c","o","n","s",".","O","W","N","E","R"," ","="," ",
      "r","e","f","_","c","c",".","O","W","N","E","R","\n"," ",
      " "," "," "," "," "," "," "," "," "," "," ","W","H","E",
      "R","E"," ","c","o","n","s",".","T","A","B","L","E","_",
      "N","A","M","E"," ","="," ","?","\n"," "," "," "," "," ",
      " "," "," "," "," "," "," "," "," "," "," ","A","N","D",
      " ","c","o","n","s",".","O","W","N","E","R"," ","="," ",
      "?","\n"," "," "," "," "," "," "," "," "," "," "," "," ",
      "O","R","D","E","R"," ","B","Y"," ","c","o","n","s",".",
      "C","O","N","S","T","R","A","I","N","T","_","T","Y","P",
      "E",","," ","c","o","n","s",".","C","O","N","S","T","R",
      "A","I","N","T","_","N","A","M","E","\n"," "," "," "," ",
      " "," "," "," "," "," "," "," ">>

\* sql of get_available_schemas, character by character
SQL_AVAILABLE_SCHEMAS ==
    <<"\n"," "," "," "," "," "," "," "," ","S","E","L","E","C",
      "T"," ","U","S","E","R","N","A","M","E"," ","a","s"," ",
      "s","c","h","e","m","a","n","a","m","e","\n"," "," "," ",
      " "," "," "," "," ","F","R","O","M"," ","A","L","L","_",
      "U","S","E","R","S"," ","\n"," "," "," "," "," "," "," ",
      " ","W","H","E","R","E"," ","U","S","E","R","N","A","M",
      "E"," ","N","O","T"," ","I","N"," ","(","'","S","Y","S",
      "'",","," ","'","S","Y","S","T","E","M","'",","," ","'",
      "S","Y","S","A","U","D","I","T","O","R","'",","," ","'",
      "C","T","X","S","Y","S","'",","," ","'","S","Y","S","D",
      "B","A","'",")","\n"," "," "," "," "," "," "," "," ","O",
      "R","D","E","R"," ","B","Y"," ","U","S","E","R","N","A",
      "M","E","\n"," "," "," "," "," "," "," "," ">>

\* the statement of test_connection, character by character
SQL_TEST_CONNECTION ==
    <<"S","E","L","E","C","T"," ","1"," ","a","s"," ","t","e",
      "s","t","_","c","o","n","n","e","c","t","i","o","n"," ",
      "F","R","O","M"," ","D","U","A","L">>

SchemaOperations ==
    {"get_all_tables", "get_table_structure",
     "get_table_indexes", "get_table_constraints"}

\* the catalog statement of an operation
CatalogSql(operation) ==
    CASE operation = "get_all_tables" -> SQL_ALL_TABLES
      [] operation = "get_table_structure" -> SQL_TABLE_STRUCTURE
      [] operation = "get_table_indexes" -> SQL_TABLE_INDEXES
      [] operation = "get_table_constraints" -> SQL_TABLE_CONSTRAINTS
      [] operation = "get_available_schemas" -> SQL_AVAILABLE_SCHEMAS
      [] operation = "test_connection" -> SQL_TEST_CONNECTION

\* the prefixes of the str.startswith test of execute_query
QUERY_PREFIXES == {KW_SELECT, KW_WITH, KW_SHOW, KW_DESCRIBE, KW_EXPLAIN}

\* sql.upper().strip().startswith(('SELECT', 'WITH', 'SHOW', ...))
is_query(text) ==
    \E prefix \in QUERY_PREFIXES : startswith(strip(upper(text)), prefix)

\* the exceptions a call ends with
ERR_POLICY == "SQL operation forbidden by the security policy"
ERR_SYSTEM_QUERY == "a system query must be a read-only operation"
ERR_SCHEMA == "access to the schema is not allowed"
ERR_BACKEND == "dmPython.Error"
Raised(type, text) == [kind |-> "raised", type |-> type, text |-> text]

\* ValueError(f"不允许访问模式: {schema}，允许的模式: {allowed_schemas}")
SchemaNotAllowed(name, display) ==
    [kind |-> "raised", type |-> "ValueError", text |-> ERR_SCHEMA,
     schema |-> name, allowed_schemas |-> display]

\* the values a call returns: a list of row mappings, or a boolean
Rows(result_dicts) == [kind |-> "rows", rows |-> result_dicts]
Returned(value) == [kind |-> "bool", value |-> value]

\* the list an outcome of execute_query stands for
ResultList(out) == IF out.kind = "rows" THEN out.rows ELSE <<out>>

\* _get_allowed_schemas_display: the description of the configured strategy
DISPLAY_ALL == "all schemas (*)"
DISPLAY_AUTO == "auto discovery (auto)"
DISPLAY_LIST == "list"

_get_allowed_schemas_display ==
    IF is_all_schemas_allowed
    THEN <<DISPLAY_ALL, {}>>
    ELSE IF is_auto_discover_schemas
         THEN <<DISPLAY_AUTO, {}>>
         ELSE <<DISPLAY_LIST, allowed_schemas>>

\* the membership test with both sides folded to upper case
schema_in_allowed_schemas_nocase(name) ==
    upper(name) \in { upper(s) : s \in allowed_schemas }

\* schema in self.config.allowed_schemas
schema_in_allowed_schemas(name) == name \in allowed_schemas

\* the probe answer that takes an empty result for a visible schema
probe_result_any(out) ==
    IF out.kind = "raised" THEN FALSE ELSE Len(ResultList(out)) >= 0

\* _is_schema_allowed, auto discovery: len(result) > 0, False on any exception
probe_result(out) ==
    IF out.kind = "raised" THEN FALSE ELSE Len(ResultList(out)) > 0

\* the limit that keeps the last rows instead of the first
limit_rows_last(result_dicts) ==
    IF Len(result_dicts) > max_result_rows
    THEN SubSeq(result_dicts, Len(result_dicts) - max_result_rows + 1,
                Len(result_dicts))
    ELSE result_dicts

\* result_dicts[:self.config.max_result_rows] when the list is longer
limit_rows(result_dicts) ==
    IF Len(result_dicts) > max_result_rows
    THEN SubSeq(result_dicts, 1, max_result_rows)
    ELSE result_dicts

\* the warning test with >= in place of >
over_limit_inclusive(result_dicts) == Len(result_dicts) >= max_result_rows

\* len(result_dicts) > self.config.max_result_rows, which logs the warning
over_limit(result_dicts) == Len(result_dicts) > max_result_rows

\* an exception leaves the step that raised it
Raise(error) ==
    /\ outcome' = error
    /\ failures' = Append(failures, [stage |-> stage, error |-> error])

Init ==
    /\ sql = <<>>
    /\ security_mode \in SecurityMode
    /\ max_result_rows \in 1..MaxRows
    /\ allowed_schemas = ALL_SCHEMAS
    /\ verdict = Unset
    /\ message = Unset
    /\ entry = "none"
    /\ schema = <<>>
    /\ stage = "none"
    /\ pc = "idle"
    /\ conn = "none"
    /\ opened = 0
    /\ closed = 0
    /\ uncommitted = FALSE
    /\ executed = <<>>
    /\ commits = 0
    /\ fetched = <<>>
    /\ warnings = 0
    /\ failures = <<>>
    /\ schema_allowed = Unset
    /\ outcome = NoOutcome
    /\ history = <<>>
    /\ handler = NoHandler

\* the caller invokes execute_query or execute_safe_query with a SQL text
Call ==
    /\ pc = "idle"
    /\ \E method \in {"execute_query", "execute_safe_query"},
          text \in ExecTexts :
           /\ entry' = method
           /\ sql' = text
           /\ pc' = IF method = "execute_safe_query" THEN "safe_validate"
                                                      ELSE "validate"
    /\ stage' = "direct"
    /\ UNCHANGED <<config_vars, server_vars, verdict, message, schema, conn_vars,
                   log_vars, schema_allowed, outcome>>

\* execute_safe_query: the forced read-only check, then execute_query
SafeValidate ==
    /\ pc = "safe_validate"
    /\ IF ~validate_sql(sql, READONLY)
       THEN /\ Raise(Raised("ValueError", ERR_SYSTEM_QUERY))
            /\ pc' = "done"
       ELSE /\ pc' = "validate"
            /\ UNCHANGED <<outcome, failures>>
    /\ UNCHANGED <<sql, config_vars, server_vars, verdict, message, request_vars,
                   conn_vars, executed, commits, fetched, warnings,
                   schema_allowed>>

\* execute_query without its security check
Validate_unchecked ==
    /\ pc = "validate"
    /\ verdict' = Result(validate_sql(sql, security_mode))
    /\ pc' = "connect"
    /\ UNCHANGED <<sql, config_vars, server_vars, message, request_vars, conn_vars,
                   log_vars, schema_allowed, outcome>>

\* execute_query: the security check against the configured mode
Validate ==
    /\ pc = "validate"
    /\ verdict' = Result(validate_sql(sql, security_mode))
    /\ IF ~validate_sql(sql, security_mode)
       THEN /\ message' = Result(get_error_message(sql, security_mode))
            /\ Raise(Raised("ValueError", ERR_POLICY))
            /\ pc' = "done"
       ELSE /\ pc' = "connect"
            /\ UNCHANGED <<message, outcome, failures>>
    /\ UNCHANGED <<sql, config_vars, server_vars, request_vars, conn_vars, executed,
                   commits, fetched, warnings, schema_allowed>>

\* get_connection: dmPython.connect returns a connection or raises
Connect ==
    /\ pc = "connect"
    /\ \/ /\ conn' = "open"
          /\ opened' = opened + 1
          /\ uncommitted' = FALSE
          /\ pc' = "session"
          /\ UNCHANGED <<outcome, failures>>
       \/ /\ Raise(Raised(ERR_BACKEND, "connect"))
          /\ pc' = "done"
          /\ UNCHANGED <<conn, opened, uncommitted>>
    /\ UNCHANGED <<sql, config_vars, server_vars, verdict, message, request_vars, closed,
                   executed, commits, fetched, warnings, schema_allowed>>

\* get_connection whose finally clause does not close the connection
SessionSetup_unclosed ==
    /\ pc = "session"
    /\ executed' =
           IF is_readonly_mode
           THEN Append(executed, [sql |-> SET_SESSION, on |-> opened,
                                  by |-> "get_connection"])
           ELSE executed
    /\ \/ /\ commits' = commits + 1
          /\ pc' = "execute"
          /\ UNCHANGED <<uncommitted, outcome, failures>>
       \/ /\ \E step \in (IF is_readonly_mode THEN {"session statement"}
                                               ELSE {}) \cup {"commit"} :
                 /\ Raise(Raised(ERR_BACKEND, step))
                 /\ uncommitted' = (is_readonly_mode /\ step = "commit")
          /\ pc' = "done"
          /\ UNCHANGED commits
    /\ UNCHANGED <<sql, config_vars, server_vars, verdict, message, request_vars,
                   conn, opened, closed, fetched, warnings, schema_allowed>>

\* get_connection: the session statement in read-only mode, then commit;
\* either may raise, and the finally clause then closes the connection
SessionSetup ==
    /\ pc = "session"
    /\ executed' =
           IF is_readonly_mode
           THEN Append(executed, [sql |-> SET_SESSION, on |-> opened,
                                  by |-> "get_connection"])
           ELSE executed
    /\ \/ /\ commits' = commits + 1
          /\ pc' = "execute"
          /\ UNCHANGED <<conn, closed, uncommitted, outcome, failures>>
       \/ /\ \E step \in (IF is_readonly_mode THEN {"session statement"}
                                               ELSE {}) \cup {"commit"} :
                 /\ Raise(Raised(ERR_BACKEND, step))
                 /\ uncommitted' = (is_readonly_mode /\ step = "commit")
          /\ conn' = "closed"
          /\ closed' = closed + 1
          /\ pc' = "done"
          /\ UNCHANGED commits
    /\ UNCHANGED <<sql, config_vars, server_vars, verdict, message, request_vars,
                   opened, fetched, warnings, schema_allowed>>

\* execute_query: cur.execute(sql, params) returns or raises
Execute ==
    /\ pc = "execute"
    /\ executed' = Append(executed, [sql |-> sql, on |-> opened,
                                     by |-> "execute_query"])
    /\ \/ /\ uncommitted' = TRUE
          /\ pc' = IF is_query(sql) THEN "fetch" ELSE "commit"
          /\ UNCHANGED <<conn, closed, outcome, failures>>
       \/ /\ Raise(Raised(ERR_BACKEND, "execute"))
          /\ conn' = "closed"
          /\ closed' = closed + 1
          /\ pc' = "done"
          /\ UNCHANGED uncommitted
    /\ UNCHANGED <<sql, config_vars, server_vars, verdict, message, request_vars,
                   opened, commits, fetched, warnings, schema_allowed>>

\* execute_query, the read path: fetchall, the row limit, return
Fetch ==
    /\ pc = "fetch"
    /\ \/ \E m \in 0..MaxRows :
              LET results == [i \in 1..m |-> i]
              IN  /\ fetched' = Append(fetched, Len(results))
                  /\ warnings' = IF over_limit(results) THEN warnings + 1
                                                        ELSE warnings
                  /\ outcome' = Rows(limit_rows(results))
                  /\ UNCHANGED failures
       \/ /\ Raise(Raised(ERR_BACKEND, "fetchall"))
          /\ UNCHANGED <<fetched, warnings>>
    /\ conn' = "closed"
    /\ closed' = closed + 1
    /\ pc' = "done"
    /\ UNCHANGED <<sql, config_vars, server_vars, verdict, message, request_vars,
                   opened, uncommitted, executed, commits, schema_allowed>>

\* execute_query, the other path: commit, return the affected-row summary
Commit ==
    /\ pc = "commit"
    /\ \/ /\ commits' = commits + 1
          /\ uncommitted' = FALSE
          /\ \E affected_rows \in 0..MaxRows :
                 outcome' = [kind |-> "summary",
                             affected_rows |-> affected_rows,
                             status |-> "success"]
          /\ UNCHANGED failures
       \/ /\ Raise(Raised(ERR_BACKEND, "commit"))
          /\ UNCHANGED <<commits, uncommitted>>
    /\ conn' = "closed"
    /\ closed' = closed + 1
    /\ pc' = "done"
    /\ UNCHANGED <<sql, config_vars, server_vars, verdict, message, request_vars,
                   opened, executed, fetched, warnings, schema_allowed>>

Next ==
    \/ Call
    \/ SafeValidate
    \/ Validate
    \/ Connect
    \/ SessionSetup
    \/ Execute
    \/ Fetch
    \/ Commit

Spec == Init /\ [][Next]_vars

----------------------------------------------------------------------------
(* The whole class: the schema check, the catalog operations and           *)
(* test_connection, next to direct calls of execute_query.                 *)

InitDatabase ==
    /\ sql = <<>>
    /\ security_mode \in SecurityMode
    /\ max_result_rows \in 1..MaxRows
    /\ allowed_schemas \in AllowedSchemasConfigs
    /\ verdict = Unset
    /\ message = Unset
    /\ entry = "none"
    /\ schema = <<>>
    /\ stage = "none"
    /\ pc = "idle"
    /\ conn = "none"
    /\ opened = 0
    /\ closed = 0
    /\ uncommitted = FALSE
    /\ executed = <<>>
    /\ commits = 0
    /\ fetched = <<>>
    /\ warnings = 0
    /\ failures = <<>>
    /\ schema_allowed = Unset
    /\ outcome = NoOutcome
    /\ history = <<>>
    /\ handler = NoHandler

\* the caller invokes execute_query with a statement
CallStatement ==
    /\ pc = "idle"
    /\ \E text \in StatementSamples : sql' = text
    /\ entry' = "execute_query"
    /\ stage' = "direct"
    /\ pc' = "validate"
    /\ UNCHANGED <<config_vars, server_vars, verdict, message, schema, conn_vars,
                   log_vars, schema_allowed, outcome>>

\* the caller invokes _is_schema_allowed or an operation that takes a schema
CallWithSchema ==
    /\ pc = "idle"
    /\ \E operation \in SchemaOperations \cup {"_is_schema_allowed"},
          name \in SchemaNames :
           /\ entry' = operation
           /\ schema' = name
    /\ stage' = "resolve"
    /\ pc' = "resolve"
    /\ UNCHANGED <<sql, config_vars, server_vars, verdict, message, conn_vars,
                   log_vars, schema_allowed, outcome>>

\* the caller invokes get_available_schemas or test_connection
CallWithoutSchema ==
    /\ pc = "idle"
    /\ \E operation \in {"get_available_schemas", "test_connection"} :
           /\ entry' = operation
           /\ sql' = CatalogSql(operation)
    /\ stage' = "main"
    /\ pc' = "safe_validate"
    /\ UNCHANGED <<config_vars, server_vars, verdict, message, schema, conn_vars,
                   log_vars, schema_allowed, outcome>>

\* what a finished call of _is_schema_allowed did: the schema it was asked
\* about, whether it handed the probe statement to execute_safe_query,
\* whether that statement reached cursor.execute, the row counts it fetched
\* and its answer
Answered(allowed) ==
    [schema |-> schema,
     probed |-> stage = "probe" /\ sql = SQL_SCHEMA_PROBE,
     issued |-> \E i \in DOMAIN executed : executed[i].sql = SQL_SCHEMA_PROBE,
     rows |-> fetched,
     answer |-> allowed]

\* the operations with the schema check moved inside the try block of the
\* index and constraint queries
SchemaDecided_inside_try(allowed) ==
    /\ schema_allowed' = Result(allowed)
    /\ history' = IF entry = "_is_schema_allowed"
                  THEN Append(history, Answered(allowed))
                  ELSE history
    /\ IF entry = "_is_schema_allowed"
       THEN /\ outcome' = Returned(allowed)
            /\ pc' = "returned"
            /\ UNCHANGED <<sql, stage, verdict, message, conn>>
       ELSE IF ~allowed
            THEN /\ outcome' =
                        IF entry \in {"get_table_indexes",
                                      "get_table_constraints"}
                        THEN Rows(<<>>)
                        ELSE SchemaNotAllowed(schema,
                                              _get_allowed_schemas_display)
                 /\ pc' = "returned"
                 /\ UNCHANGED <<sql, stage, verdict, message, conn>>
            ELSE /\ outcome' = NoOutcome
                 /\ sql' = CatalogSql(entry)
                 /\ stage' = "main"
                 /\ pc' = "safe_validate"
                 /\ verdict' = Unset
                 /\ message' = Unset
                 /\ conn' = "none"

\* what follows the answer of _is_schema_allowed: the answer itself for a
\* direct call, the ValueError of the operation when it is False, the
\* catalog statement of the operation when it is True
SchemaDecided(allowed) ==
    /\ schema_allowed' = Result(allowed)
    /\ history' = IF entry = "_is_schema_allowed"
                  THEN Append(history, Answered(allowed))
                  ELSE history
    /\ IF entry = "_is_schema_allowed"
       THEN /\ outcome' = Returned(allowed)
            /\ pc' = "returned"
            /\ UNCHANGED <<sql, stage, verdict, message, conn>>
       ELSE IF ~allowed
            THEN /\ outcome' = SchemaNotAllowed(schema,
                                                _get_allowed_schemas_display)
                 /\ pc' = "returned"
                 /\ UNCHANGED <<sql, stage, verdict, message, conn>>
            ELSE /\ outcome' = NoOutcome
                 /\ sql' = CatalogSql(entry)
                 /\ stage' = "main"
                 /\ pc' = "safe_validate"
                 /\ verdict' = Unset
                 /\ message' = Unset
                 /\ conn' = "none"

\* _is_schema_allowed with a cache: the answer an earlier call gave for the
\* same schema is returned again, without a probe
ResolveSchema_cached ==
    /\ pc = "resolve"
    /\ IF is_all_schemas_allowed
       THEN SchemaDecided(TRUE)
       ELSE IF \E i \in DOMAIN history : history[i].schema = schema
            THEN SchemaDecided(
                     history[CHOOSE i \in DOMAIN history :
                                 history[i].schema = schema].answer)
            ELSE IF is_auto_discover_schemas
                 THEN /\ sql' = SQL_SCHEMA_PROBE
                      /\ stage' = "probe"
                      /\ pc' = "safe_validate"
                      /\ UNCHANGED <<verdict, message, conn,
                                     schema_allowed, outcome, history>>
                 ELSE SchemaDecided(schema_in_allowed_schemas(schema))
    /\ UNCHANGED <<config_vars, handler, entry, schema, opened, closed,
                   uncommitted, log_vars>>

\* _is_schema_allowed: all schemas, auto discovery (the probe statement goes
\* through execute_safe_query), or the configured list
ResolveSchema ==
    /\ pc = "resolve"
    /\ IF is_all_schemas_allowed
       THEN SchemaDecided(TRUE)
       ELSE IF is_auto_discover_schemas
            THEN /\ sql' = SQL_SCHEMA_PROBE
                 /\ stage' = "probe"
                 /\ pc' = "safe_validate"
                 /\ UNCHANGED <<verdict, message, conn,
                                schema_allowed, outcome, history>>
            ELSE SchemaDecided(schema_in_allowed_schemas(schema))
    /\ UNCHANGED <<config_vars, handler, entry, schema, opened, closed, uncommitted,
                   log_vars>>

\* _is_schema_allowed, auto discovery: the probe returned or raised
ProbeReturn ==
    /\ pc = "done"
    /\ stage = "probe"
    /\ SchemaDecided(probe_result(outcome))
    /\ UNCHANGED <<config_vars, handler, entry, schema, opened, closed, uncommitted,
                   log_vars>>

\* the operations without their except clauses
OperationReturn_propagating ==
    /\ pc = "done"
    /\ stage = "main"
    /\ pc' = "returned"
    /\ UNCHANGED <<sql, config_vars, server_vars, verdict, message, entry, schema, stage,
                   conn_vars, log_vars, schema_allowed, outcome>>

\* the end of an operation: get_table_indexes and get_table_constraints
\* return [] on any exception, test_connection returns a boolean, False on
\* any exception, the others return or raise what execute_safe_query did
OperationReturn ==
    /\ pc = "done"
    /\ stage = "main"
    /\ IF entry \in {"get_table_indexes", "get_table_constraints"}
       THEN outcome' = IF outcome.kind = "raised" THEN Rows(<<>>)
                                                  ELSE outcome
       ELSE IF entry = "test_connection"
            THEN \E value \in (IF outcome.kind = "rows"
                                    /\ Len(outcome.rows) > 0
                               THEN BOOLEAN ELSE {FALSE}) :
                     outcome' = Returned(value)
            ELSE UNCHANGED outcome
    /\ pc' = "returned"
    /\ UNCHANGED <<sql, config_vars, server_vars, verdict, message, entry, schema, stage,
                   conn_vars, log_vars, schema_allowed>>

\* a later call of _is_schema_allowed on the instance get_db_instance
\* keeps: the same object and configuration, a new invocation whose
\* connection, statements and results are observed from the start
CallSchemaCheckAgain ==
    /\ pc = "returned"
    /\ entry = "_is_schema_allowed"
    /\ Len(history) < MaxCalls
    /\ \E name \in SchemaNames : schema' = name
    /\ stage' = "resolve"
    /\ pc' = "resolve"
    /\ sql' = <<>>
    /\ verdict' = Unset
    /\ message' = Unset
    /\ conn' = "none"
    /\ opened' = 0
    /\ closed' = 0
    /\ uncommitted' = FALSE
    /\ executed' = <<>>
    /\ commits' = 0
    /\ fetched' = <<>>
    /\ warnings' = 0
    /\ failures' = <<>>
    /\ schema_allowed' = Unset
    /\ outcome' = NoOutcome
    /\ UNCHANGED <<config_vars, server_vars, entry>>

NextDatabase ==
    \/ CallStatement
    \/ CallWithSchema
    \/ CallWithoutSchema
    \/ CallSchemaCheckAgain
    \/ ResolveSchema
    \/ ProbeReturn
    \/ SafeValidate
    \/ Validate
    \/ Connect
    \/ SessionSetup
    \/ Execute
    \/ Fetch
    \/ Commit
    \/ OperationReturn

SpecDatabase == InitDatabase /\ [][NextDatabase]_vars

----------------------------------------------------------------------------
(* handle_call_tool (src/main.py:167-523): the tool names and arguments of *)
(* a request, the calls of the database methods a tool makes, and the      *)
(* response.                                                               *)

\* the tools of the server, and a name that is none of them
ToolNames ==
    {"test_connection", "get_security_info", "list_tables",
     "describe_table", "generate_table_doc", "generate_database_overview",
     "execute_query", "list_schemas"}
RequestedNames == ToolNames \cup {"drop_table"}

\* the argument mappings of a request, as sets of <<key, value>>; None is
\* Unset, a mapping is held in a 1-tuple
NAME_TABLE == <<"T">>
FORMAT_MARKDOWN == <<"m","a","r","k","d","o","w","n">>
FORMAT_JSON == <<"j","s","o","n">>
FORMAT_SQL == <<"s","q","l">>
FORMAT_OTHER == <<"x","m","l">>
ArgumentSets ==
    {Unset, Result({}), Result({<<"schema", NAME_OTHER>>})}
        \cup { Result({<<"table_name", NAME_TABLE>>} \cup more) :
                 more \in {{}, {<<"schema", NAME_OTHER>>},
                           {<<"format", FORMAT_OTHER>>}} }
        \cup { Result({<<"sql", keyword \o <<" ", "x">>>>}) :
                 keyword \in {KW_SELECT, KW_UPDATE} }

\* not arguments
not_arguments(arguments) == arguments = Unset \/ arguments[1] = {}

\* key in arguments
in_arguments(key, arguments) == \E item \in arguments[1] : item[1] = key

\* arguments.get(key, default)
arguments_get(arguments, key, default) ==
    IF in_arguments(key, arguments)
    THEN (CHOOSE item \in arguments[1] : item[1] = key)[2]
    ELSE default

\* arguments.get("schema", "SYSDBA") if arguments else "SYSDBA"
schema_argument(arguments) ==
    IF not_arguments(arguments) THEN NAME_SYSDBA
    ELSE arguments_get(arguments, "schema", NAME_SYSDBA)

\* the texts of the responses
TXT_CONNECTION_OK == "connection test: success"
TXT_CONNECTION_FAILED == "connection test: failure"
TXT_SECURITY_INFO == "current security configuration"
TXT_NO_TABLES == "no table found in the schema"
TXT_TABLE_LIST == "list of the tables of the schema"
TXT_MISSING_TABLE_NAME == "error: required parameter 'table_name' missing"
TXT_TABLE_NOT_FOUND == "the table does not exist in the schema"
TXT_TABLE_STRUCTURE == "structure of the table"
TXT_UNSUPPORTED_FORMAT == "unsupported document format"
TXT_DOC_SAVED == "document generated"
TXT_SAVE_FAILED == "saving the file failed, document content follows"
TXT_DOC_FAILED == "error while generating the document"
TXT_OVERVIEW_FAILED == "error while generating the database overview"
TXT_MISSING_SQL == "error: required parameter 'sql' missing"
TXT_NO_RESULT == "statement executed, no result returned"
TXT_QUERY_RESULT == "query result"
TXT_OPERATION_DONE == "operation executed"
TXT_QUERY_FAILED == "SQL execution failed"
TXT_NO_SCHEMAS == "no accessible schema found"
TXT_SCHEMA_LIST == "accessible schemas"
TXT_SCHEMAS_FAILED == "getting the schema list failed"
TXT_UNKNOWN_TOOL == "unknown tool"
TXT_TOOL_FAILED == "tool call failed"

\* [TextContent(type="text", text=...)]
TextContent(text) == [type |-> "text", text |-> text]

\* an exception that leaves handle_call_tool for the protocol layer
Propagated(error) == [type |-> "exception", text |-> error.text]

\* the handler waits for the database method it called
Waiting(name, arguments, structure) ==
    [name |-> name, arguments |-> arguments, at |-> "waiting",
     structure |-> structure, response |-> Unset]

\* the handler returned
Responded(name, arguments, structure, response) ==
    [name |-> name, arguments |-> arguments, at |-> "responded",
     structure |-> structure, response |-> Result(response)]

\* the handler calls a method of the database instance: the observation of
\* the call starts with no connection, statement or result
CallDatabase(operation, name, text, st, position) ==
    /\ entry' = operation
    /\ schema' = name
    /\ sql' = text
    /\ stage' = st
    /\ pc' = position
    /\ verdict' = Unset
    /\ message' = Unset
    /\ conn' = "none"
    /\ opened' = 0
    /\ closed' = 0
    /\ uncommitted' = FALSE
    /\ executed' = <<>>
    /\ commits' = 0
    /\ fetched' = <<>>
    /\ warnings' = 0
    /\ failures' = <<>>
    /\ schema_allowed' = Unset
    /\ outcome' = NoOutcome

\* db.get_all_tables(schema), db.get_table_structure(table_name, schema), ...
CallSchemaOperation(operation, name) ==
    CallDatabase(operation, name, <<>>, "resolve", "resolve")

\* db.test_connection(), db.get_available_schemas()
CallOperation(operation) ==
    CallDatabase(operation, schema, CatalogSql(operation), "main",
                 "safe_validate")

\* the handler returns without a call of a database method
Respond(name, arguments, text) ==
    /\ handler' = Responded(name, arguments, Unset, TextContent(text))
    /\ UNCHANGED <<sql, verdict, message, call_vars>>

\* InitDatabase with the row limit at its bound and one configured list
InitHandler ==
    /\ InitDatabase
    /\ max_result_rows = MaxRows
    /\ allowed_schemas \in {ALL_SCHEMAS, AUTO_DISCOVER, {NAME_SYSDBA}}

\* the request arrives: get_db_instance, then the branch of the tool name up
\* to its first call of a database method or to its return
handle_call_tool ==
    /\ pc = "idle"
    /\ handler.at = "idle"
    /\ \E name \in RequestedNames, arguments \in ArgumentSets :
         \/ \* get_db_instance raised, the outer except clause answers
            Respond(name, arguments, TXT_TOOL_FAILED)
         \/ IF name = "test_connection"
            THEN /\ CallOperation("test_connection")
                 /\ handler' = Waiting(name, arguments, Unset)
            ELSE IF name = "get_security_info"
            THEN Respond(name, arguments, TXT_SECURITY_INFO)
            ELSE IF name \in {"list_tables", "generate_database_overview"}
            THEN /\ CallSchemaOperation("get_all_tables",
                                        schema_argument(arguments))
                 /\ handler' = Waiting(name, arguments, Unset)
            ELSE IF name \in {"describe_table", "generate_table_doc"}
            THEN IF not_arguments(arguments)
                    \/ ~in_arguments("table_name", arguments)
                 THEN Respond(name, arguments, TXT_MISSING_TABLE_NAME)
                 ELSE /\ CallSchemaOperation(
                             "get_table_structure",
                             arguments_get(arguments, "schema", NAME_SYSDBA))
                      /\ handler' = Waiting(name, arguments, Unset)
            ELSE IF name = "execute_query"
            THEN IF not_arguments(arguments)
                    \/ ~in_arguments("sql", arguments)
                 THEN Respond(name, arguments, TXT_MISSING_SQL)
                 ELSE /\ CallDatabase("execute_query", schema,
                                      arguments_get(arguments, "sql", <<>>),
                                      "direct", "validate")
                      /\ handler' = Waiting(name, arguments, Unset)
            ELSE IF name = "list_schemas"
            THEN /\ CallOperation("get_available_schemas")
                 /\ handler' = Waiting(name, arguments, Unset)
            ELSE Respond(name, arguments, TXT_UNKNOWN_TOOL)
    /\ UNCHANGED <<config_vars, history>>

\* the database method the handler waits for has returned or raised
MethodEnded ==
    /\ handler.at = "waiting"
    /\ pc = "returned" \/ (pc = "done" /\ stage = "direct")

\* the text of the except clause that catches an exception of the tool: the
\* clause of the tool's own try block, the outer clause for the tools
\* without one
ExceptionText(name) ==
    CASE name \in {"generate_table_doc"} -> TXT_DOC_FAILED
      [] name = "generate_database_overview" -> TXT_OVERVIEW_FAILED
      [] name = "execute_query" -> TXT_QUERY_FAILED
      [] name = "list_schemas" -> TXT_SCHEMAS_FAILED
      [] OTHER -> TXT_TOOL_FAILED

\* the handler with the outer try block removed: an exception of a tool
\* without a try block of its own leaves the handler
HandleException_without_outer_try ==
    /\ MethodEnded
    /\ outcome.kind = "raised"
    /\ handler' =
           Responded(handler.name, handler.arguments, handler.structure,
                     IF ExceptionText(handler.name) = TXT_TOOL_FAILED
                     THEN Propagated(outcome)
                     ELSE TextContent(ExceptionText(handler.name)))
    /\ UNCHANGED <<sql, config_vars, verdict, message, call_vars, history>>

\* the database method raised: the except clause around the call returns
\* its text
HandleException ==
    /\ MethodEnded
    /\ outcome.kind = "raised"
    /\ handler' =
           Responded(handler.name, handler.arguments, handler.structure,
                     TextContent(ExceptionText(handler.name)))
    /\ UNCHANGED <<sql, config_vars, verdict, message, call_vars, history>>

\* describe_table and generate_table_doc: get_table_structure, then
\* get_table_indexes, then get_table_constraints, before structure is tested
HandleNextOperation ==
    /\ MethodEnded
    /\ outcome.kind # "raised"
    /\ entry \in {"get_table_structure", "get_table_indexes"}
    /\ IF entry = "get_table_structure"
       THEN /\ CallSchemaOperation("get_table_indexes", schema)
            /\ handler' = Waiting(handler.name, handler.arguments,
                                  Result(outcome.rows))
       ELSE /\ CallSchemaOperation("get_table_constraints", schema)
            /\ UNCHANGED handler
    /\ UNCHANGED <<config_vars, history>>

\* the texts a tool can return once its last database method has returned:
\* doc_generator, the file write and json.dumps can fail, and the except
\* clauses around them return a text as well
ResultTexts ==
    CASE handler.name = "test_connection" ->
             {IF outcome.value THEN TXT_CONNECTION_OK
                               ELSE TXT_CONNECTION_FAILED}
      [] handler.name = "list_tables" ->
             {IF outcome.rows = <<>> THEN TXT_NO_TABLES ELSE TXT_TABLE_LIST}
      [] handler.name = "describe_table" ->
             {IF handler.structure[1] = <<>> THEN TXT_TABLE_NOT_FOUND
                                             ELSE TXT_TABLE_STRUCTURE}
      [] handler.name = "generate_table_doc" ->
             IF handler.structure[1] = <<>> THEN {TXT_TABLE_NOT_FOUND}
             ELSE IF arguments_get(handler.arguments, "format",
                                   FORMAT_MARKDOWN)
                         \notin {FORMAT_MARKDOWN, FORMAT_JSON, FORMAT_SQL}
                  THEN {TXT_DOC_FAILED, TXT_UNSUPPORTED_FORMAT}
                  ELSE {TXT_DOC_FAILED, TXT_DOC_SAVED, TXT_SAVE_FAILED}
      [] handler.name = "generate_database_overview" ->
             {TXT_OVERVIEW_FAILED, TXT_DOC_SAVED, TXT_SAVE_FAILED}
      [] handler.name = "execute_query" ->
             IF ResultList(outcome) = <<>> THEN {TXT_NO_RESULT}
             ELSE {TXT_QUERY_FAILED,
                   IF is_query(sql) THEN TXT_QUERY_RESULT
                                    ELSE TXT_OPERATION_DONE}
      [] handler.name = "list_schemas" ->
             {IF outcome.rows = <<>> THEN TXT_NO_SCHEMAS
                                     ELSE TXT_SCHEMA_LIST}

\* the last database method of the tool returned: the handler formats and
\* returns its response
HandleResult ==
    /\ MethodEnded
    /\ outcome.kind # "raised"
    /\ entry \notin {"get_table_structure", "get_table_indexes"}
    /\ \E text \in ResultTexts :
           handler' = Responded(handler.name, handler.arguments,
                                handler.structure, TextContent(text))
    /\ UNCHANGED <<sql, config_vars, verdict, message, call_vars, history>>

NextHandler ==
    \/ handle_call_tool
    \/ ResolveSchema
    \/ ProbeReturn
    \/ SafeValidate
    \/ Validate
    \/ Connect
    \/ SessionSetup
    \/ Execute
    \/ Fetch
    \/ Commit
    \/ OperationReturn
    \/ HandleNextOperation
    \/ HandleResult
    \/ HandleException

SpecHandler == InitHandler /\ [][NextHandler]_vars

----------------------------------------------------------------------------
(* The vocabulary of the properties: the leading keyword, the keyword      *)
(* categories and the dangerous phrases, stated on the text itself.        *)

NormalizedText(text) == strip(upper(text))

\* the first whitespace-delimited token of a normalized text, "" if none
FirstToken(t) ==
    IF \A i \in DOMAIN t : ~IsSpace(t[i]) THEN t
    ELSE SubSeq(t, 1, (CHOOSE i \in 1..Len(t) :
                           /\ IsSpace(t[i])
                           /\ \A j \in 1..(i - 1) : ~IsSpace(t[j])) - 1)

LeadingKeyword(text) == FirstToken(NormalizedText(text))

ReadOnlyKeywords ==
    {KW_SELECT, KW_WITH, KW_SHOW, KW_DESCRIBE, KW_EXPLAIN, KW_ANALYZE}
WriteKeywords == {KW_INSERT, KW_UPDATE}
DangerousKeywords ==
    {KW_DELETE, KW_DROP, KW_CREATE, KW_ALTER, KW_TRUNCATE, KW_GRANT, KW_REVOKE}

\* the words that open the seven dangerous phrases
PhraseWords ==
    {KW_DROP, KW_DELETE, KW_INSERT, KW_UPDATE, KW_CREATE, KW_ALTER, KW_TRUNCATE}

Phrase(first, second) == <<B, Lit(first), SP, Lit(second), B>>

DangerousPhrases ==
    { Phrase(KW_DROP, KW_TABLE), Phrase(KW_TRUNCATE, KW_TABLE),
      Phrase(KW_DELETE, KW_FROM), Phrase(KW_INSERT, KW_INTO),
      <<B, Lit(KW_UPDATE), SP, WD, SP, Lit(KW_SET), B>>,
      Phrase(KW_CREATE, KW_TABLE), Phrase(KW_ALTER, KW_TABLE) }

\* some dangerous phrase matches the normalized text on word boundaries
PhraseFound(text) ==
    LET t == NormalizedText(text)
    IN  \E ph \in DangerousPhrases : re_search(ph, t)

\* some word of the set occurs somewhere in the normalized text, inside a
\* longer word or not
AnyOccursAnywhere(text, words) ==
    LET t == NormalizedText(text)
    IN  \E w \in words : Contains(t, w)

\* some word of the set occurs in the normalized text as a whole token
AnyOccursAsToken(text, words) ==
    LET t == NormalizedText(text)
    IN  \E w \in words : re_search(<<B, Lit(w), B>>, t)

Allowed == verdict = Result(TRUE)
Denied == verdict = Result(FALSE)

----------------------------------------------------------------------------
(* C2, as stated: in read-only mode a statement is allowed if and only if  *)
(* its leading keyword is a read-only keyword and none of the seven        *)
(* dangerous phrases matches it.                                           *)
C2_AsStated ==
    (security_mode = READONLY /\ verdict # Unset) =>
        (Allowed <=> ( /\ LeadingKeyword(sql) \in ReadOnlyKeywords
                       /\ ~PhraseFound(sql) ))

(* C2, amended: in read-only mode a statement is allowed if and only if    *)
(* its leading keyword is a read-only keyword, none of the seven dangerous *)
(* phrases matches it and, when the leading keyword is not SELECT, no      *)
(* write or dangerous keyword occurs anywhere in the normalized text.      *)
C2_ReadOnlyAllows ==
    (security_mode = READONLY /\ verdict # Unset) =>
        (Allowed <=>
            ( /\ LeadingKeyword(sql) \in ReadOnlyKeywords
              /\ ~PhraseFound(sql)
              /\ \/ LeadingKeyword(sql) = KW_SELECT
                 \/ ~AnyOccursAnywhere(sql, WriteKeywords
                                               \cup DangerousKeywords) ))

\* a SHOW statement without any dangerous phrase is denied for a keyword
C2_Witness ==
    /\ security_mode = READONLY
    /\ Denied
    /\ LeadingKeyword(sql) = KW_SHOW
    /\ ~PhraseFound(sql)
    /\ AnyOccursAnywhere(sql, {KW_UPDATE})

----------------------------------------------------------------------------
(* C3: whatever read-only mode allows, limited-write mode and full-access  *)
(* mode allow too.                                                         *)
C3_Monotone ==
    (security_mode = READONLY /\ Allowed) =>
        /\ validate_sql(sql, LIMITED_WRITE)
        /\ validate_sql(sql, FULL_ACCESS)

----------------------------------------------------------------------------
(* C4: full-access mode allows every statement, also the empty one, one    *)
(* with an unknown leading keyword and a SELECT with a dangerous phrase.   *)
C4_FullAccessAllows ==
    (security_mode = FULL_ACCESS /\ verdict # Unset) => Allowed

\* a SELECT statement with an embedded dangerous phrase was allowed
C4_Witness ==
    /\ security_mode = FULL_ACCESS
    /\ Allowed
    /\ LeadingKeyword(sql) = KW_SELECT
    /\ PhraseFound(sql)

----------------------------------------------------------------------------
(* C5, as stated: in limited-write mode a statement is allowed if and only *)
(* if its leading keyword is a read-only or a write keyword and none of    *)
(* the dangerous phrases is found in it.                                   *)
C5_AsStated ==
    (security_mode = LIMITED_WRITE /\ verdict # Unset) =>
        (Allowed <=>
            ( /\ LeadingKeyword(sql) \in ReadOnlyKeywords \cup WriteKeywords
              /\ ~PhraseFound(sql) ))

(* C5, amended: in limited-write mode a statement is allowed if and only   *)
(* if its leading keyword is a read-only or a write keyword and none of    *)
(* the dangerous keywords DELETE, DROP, CREATE, ALTER, TRUNCATE, GRANT,    *)
(* REVOKE occurs anywhere in the uppercased text.                          *)
C5_LimitedWriteAllows ==
    (security_mode = LIMITED_WRITE /\ verdict # Unset) =>
        (Allowed <=>
            ( /\ LeadingKeyword(sql) \in ReadOnlyKeywords \cup WriteKeywords
              /\ ~AnyOccursAnywhere(sql, DangerousKeywords) ))

\* an INSERT INTO statement, which matches a phrase, was allowed
C5_Witness ==
    /\ security_mode = LIMITED_WRITE
    /\ Allowed
    /\ LeadingKeyword(sql) = KW_INSERT
    /\ PhraseFound(sql)

----------------------------------------------------------------------------
(* C6: in read-only mode a SELECT statement in which one of the seven      *)
(* dangerous phrases matches on word boundaries is denied.                 *)
C6_EmbeddedPhraseDenied ==
    ( /\ security_mode = READONLY
      /\ verdict # Unset
      /\ LeadingKeyword(sql) = KW_SELECT
      /\ PhraseFound(sql) ) => Denied

\* SELECT ... DROP TABLE was denied
C6_Witness ==
    /\ security_mode = READONLY
    /\ Denied
    /\ LeadingKeyword(sql) = KW_SELECT
    /\ re_search(Phrase(KW_DROP, KW_TABLE), NormalizedText(sql))

----------------------------------------------------------------------------
(* C7: in read-only mode a SELECT statement in which the phrase words      *)
(* occur only inside longer identifiers, so that no phrase matches, is     *)
(* allowed.                                                                *)
OnlyInsideIdentifiers(text) ==
    /\ AnyOccursAnywhere(text, PhraseWords)
    /\ ~AnyOccursAsToken(text, PhraseWords)

C7_IdentifiersAllowed ==
    ( /\ security_mode = READONLY
      /\ verdict # Unset
      /\ LeadingKeyword(sql) = KW_SELECT
      /\ OnlyInsideIdentifiers(sql) ) => (~PhraseFound(sql) /\ Allowed)

\* a SELECT of an identifier that contains DROP was allowed
C7_Witness ==
    /\ security_mode = READONLY
    /\ Allowed
    /\ LeadingKeyword(sql) = KW_SELECT
    /\ AnyOccursAnywhere(sql, {KW_DROP})
    /\ OnlyInsideIdentifiers(sql)
    /\ ~PhraseFound(sql)

----------------------------------------------------------------------------
(* C8: in read-only mode a statement whose leading keyword is WITH, SHOW,  *)
(* DESCRIBE, EXPLAIN or ANALYZE is denied exactly when a write or          *)
(* dangerous keyword occurs in it as a whole token.                        *)
C8_WholeTokenScan ==
    ( /\ security_mode = READONLY
      /\ verdict # Unset
      /\ LeadingKeyword(sql) \in ReadOnlyKeywords \ {KW_SELECT} ) =>
        (Denied <=> AnyOccursAsToken(sql, WriteKeywords
                                              \cup DangerousKeywords))

----------------------------------------------------------------------------
(* C9: the reason of a denial names its cause: a write reason only for a   *)
(* leading write keyword, a dangerous-operation reason only for a leading  *)
(* dangerous keyword, an unsupported-operation reason only for a leading   *)
(* keyword that is not recognized.                                         *)
Reason == message[1][1]

C9_ReasonNamesCause ==
    (Denied /\ message # Unset) =>
        /\ Reason = MSG_READONLY_WRITE =>
               LeadingKeyword(sql) \in WriteKeywords
        /\ Reason \in {MSG_READONLY_DANGEROUS, MSG_LIMITED_DANGEROUS} =>
               LeadingKeyword(sql) \in DangerousKeywords
        /\ Reason \in {MSG_READONLY_UNSUPPORTED, MSG_LIMITED_UNSUPPORTED} =>
               LeadingKeyword(sql) \notin
                   ReadOnlyKeywords \cup WriteKeywords \cup DangerousKeywords

----------------------------------------------------------------------------
(* C1: the caller's SQL text reaches the backend cursor only if the        *)
(* configured mode allows it; when it does not, the call ends with the     *)
(* policy error, and no connection has been opened.                        *)
PolicyRefused ==
    /\ outcome.kind = "raised"
    /\ outcome.type = "ValueError"
    /\ outcome.text \in {ERR_POLICY, ERR_SYSTEM_QUERY}

C1_PolicyBeforeBackend ==
    /\ \A i \in DOMAIN executed :
           executed[i].by = "execute_query" =>
               validate_sql(executed[i].sql, security_mode)
    /\ (pc \notin {"idle", "safe_validate", "validate"}
            /\ ~validate_sql(sql, security_mode)) =>
           /\ pc = "done"
           /\ PolicyRefused
    /\ PolicyRefused => (conn = "none" /\ executed = <<>> /\ commits = 0)

\* execute_query refused a statement before any connection was opened
C1_Witness ==
    /\ entry = "execute_query"
    /\ pc = "done"
    /\ outcome = Raised("ValueError", ERR_POLICY)
    /\ ~validate_sql(sql, security_mode)
    /\ conn = "none"

----------------------------------------------------------------------------
(* C10: execute_safe_query permits a statement if and only if read-only    *)
(* mode allows it, whatever the configured mode is.                        *)
C10_SafeQueryIsReadOnly ==
    (entry = "execute_safe_query"
        /\ pc \notin {"idle", "safe_validate", "validate"}) =>
        (~PolicyRefused <=> validate_sql(sql, READONLY))

----------------------------------------------------------------------------
(* C18: a statement whose leading keyword is not a recognized keyword, the *)
(* empty and the whitespace-only statement (leading keyword "") included,  *)
(* is denied in read-only and in limited-write mode and allowed in         *)
(* full-access mode.                                                       *)
Unrecognized(text) ==
    LeadingKeyword(text) \notin
        ReadOnlyKeywords \cup WriteKeywords \cup DangerousKeywords

C18_UnrecognizedDenied ==
    (verdict # Unset /\ Unrecognized(sql)) =>
        IF security_mode = FULL_ACCESS THEN Allowed ELSE Denied

\* the whitespace-only statement was denied in limited-write mode
C18_Witness ==
    /\ security_mode = LIMITED_WRITE
    /\ Denied
    /\ sql = <<" ">>
    /\ LeadingKeyword(sql) = <<>>

----------------------------------------------------------------------------
(* The vocabulary of the properties of the database layer.                 *)

\* the call has returned or raised
Finished == pc = "returned" \/ (pc = "done" /\ stage = "direct")

\* the backend raised while the statement of the given stage was run
BackendFailed(st) ==
    \E i \in DOMAIN failures :
        failures[i].stage = st /\ failures[i].error.type = ERR_BACKEND

\* the first min(M, N) of M backend rows, in the order of the backend
FirstRows(M, N) == [i \in 1..(IF M < N THEN M ELSE N) |-> i]

\* the statement was handed to the cursor by execute_query
Issued(text) ==
    \E i \in DOMAIN executed :
        executed[i].by = "execute_query" /\ executed[i].sql = text

----------------------------------------------------------------------------
(* C11: the catalog statements are judged against read-only mode only: for *)
(* a permitted schema and a backend that does not fail, get_all_tables,    *)
(* get_table_structure, get_table_indexes and get_table_constraints return *)
(* the rows the backend holds for their statement, whatever the configured *)
(* mode is, and no policy error of the configured mode arises on the way.  *)
C11_SameRowsInEveryMode ==
    ( /\ entry \in SchemaOperations
      /\ pc = "returned"
      /\ schema_allowed = Result(TRUE)
      /\ ~BackendFailed("main") ) =>
        /\ failures = <<>>
        /\ Issued(CatalogSql(entry))
        /\ fetched # <<>>
        /\ outcome = Rows(FirstRows(fetched[Len(fetched)], max_result_rows))

----------------------------------------------------------------------------
(* C12: with all schemas allowed or with a configured list, the schema     *)
(* check is decided without any database access: every name is allowed in  *)
(* the first case; in the second a name is allowed if and only if it is a  *)
(* member of the list, compared exactly, so that a name that differs from  *)
(* a member only in case is rejected.                                      *)
DiffersOnlyInCase(name) ==
    /\ name \notin allowed_schemas
    /\ \E member \in allowed_schemas : upper(member) = upper(name)

C12_SchemaCheckWithoutDatabase ==
    ~is_auto_discover_schemas =>
        /\ stage # "probe"
        /\ ~Issued(SQL_SCHEMA_PROBE)
        /\ stage = "resolve" => (opened = 0 /\ executed = <<>>)
        /\ schema_allowed # Unset =>
               /\ is_all_schemas_allowed => schema_allowed = Result(TRUE)
               /\ ~is_all_schemas_allowed =>
                      /\ schema_allowed = Result(schema \in allowed_schemas)
                      /\ DiffersOnlyInCase(schema) =>
                             schema_allowed = Result(FALSE)
        /\ (entry = "_is_schema_allowed" /\ pc = "returned") =>
               /\ outcome = Returned(schema_allowed[1])
               /\ opened = 0

\* "sysdba" was rejected against the list ['SYSDBA'] without a connection
C12_Witness ==
    /\ entry = "_is_schema_allowed"
    /\ pc = "returned"
    /\ allowed_schemas = {NAME_SYSDBA}
    /\ schema = NAME_SYSDBA_LOWER
    /\ outcome = Returned(FALSE)
    /\ opened = 0

----------------------------------------------------------------------------
(* C13: with auto discovery, in every security mode, the schema check      *)
(* answers True if and only if the probe statement, run through            *)
(* execute_safe_query, completed and returned at least one row; a failure  *)
(* of the probe gives False and never reaches the caller as an error.      *)
ProbeReturnedRows ==
    /\ Issued(SQL_SCHEMA_PROBE)
    /\ fetched # <<>>
    /\ fetched[1] >= 1

C13_ProbeFailsClosed ==
    is_auto_discover_schemas =>
        /\ schema_allowed # Unset =>
               (schema_allowed = Result(TRUE) <=> ProbeReturnedRows)
        /\ (schema_allowed # Unset
                /\ \E i \in DOMAIN failures : failures[i].stage = "probe") =>
               schema_allowed = Result(FALSE)
        /\ (entry = "_is_schema_allowed" /\ pc = "returned") =>
               outcome = Returned(schema_allowed[1])
        /\ (entry \in SchemaOperations /\ stage = "main") =>
               schema_allowed = Result(TRUE)

\* the probe failed in the backend and the schema check answered False
C13_Witness ==
    /\ is_auto_discover_schemas
    /\ security_mode = LIMITED_WRITE
    /\ entry = "_is_schema_allowed"
    /\ pc = "returned"
    /\ BackendFailed("probe")
    /\ outcome = Returned(FALSE)

----------------------------------------------------------------------------
(* C14: an operation that takes a schema runs the schema check before its  *)
(* catalog statement: when the check answers False the operation raises    *)
(* the error that carries the description of the configured strategy, its  *)
(* catalog statement is never issued, and the refusal is not turned into   *)
(* an empty result, for get_table_indexes and get_table_constraints too.   *)
C14_SchemaCheckedFirst ==
    entry \in SchemaOperations =>
        /\ (stage = "main" \/ Issued(CatalogSql(entry))) =>
               schema_allowed = Result(TRUE)
        /\ schema_allowed = Result(FALSE) =>
               /\ pc = "returned"
               /\ outcome = SchemaNotAllowed(schema,
                                             _get_allowed_schemas_display)
               /\ ~Issued(CatalogSql(entry))

\* get_table_indexes raised the schema error, with auto discovery named
C14_Witness ==
    /\ entry = "get_table_indexes"
    /\ pc = "returned"
    /\ is_auto_discover_schemas
    /\ schema_allowed = Result(FALSE)
    /\ outcome = SchemaNotAllowed(schema, <<DISPLAY_AUTO, {}>>)

----------------------------------------------------------------------------
(* C15: when fetchall has returned M rows for a permitted read statement   *)
(* and max_result_rows is N, execute_query returns exactly the first       *)
(* min(M, N) rows in the order of the backend; the limit comes after the   *)
(* retrieval, never raises, and is not applied to the summary record of a  *)
(* write operation.                                                        *)
C15_RowLimit ==
    /\ fetched # <<>> =>
           /\ pc = "done"
           /\ validate_sql(sql, security_mode)
           /\ outcome = Rows(FirstRows(fetched[Len(fetched)], max_result_rows))
    /\ outcome.kind = "rows" => fetched # <<>>
    /\ outcome.kind = "summary" =>
           /\ fetched = <<>>
           /\ warnings = 0
           /\ outcome.status = "success"

\* two rows were fetched under a limit of one and the first was returned
C15_Witness ==
    /\ entry = "execute_query"
    /\ pc = "done"
    /\ max_result_rows = 1
    /\ fetched = <<2>>
    /\ outcome = Rows(<<1>>)

----------------------------------------------------------------------------
(* C16, as stated: the value a read query returns carries a truncation     *)
(* indicator if and only if the backend returned more rows than            *)
(* max_result_rows.                                                        *)
HasIndicator(out) == DOMAIN out # {"kind", "rows"}

C16_AsStated ==
    (outcome.kind = "rows" /\ fetched # <<>>) =>
        (HasIndicator(outcome) <=>
             fetched[Len(fetched)] > max_result_rows)

(* C16, amended: the value a read query returns is the list of rows alone  *)
(* and never carries a truncation indicator; a warning is written to the   *)
(* log if and only if the backend returned more rows than max_result_rows. *)
C16_TruncationOnlyLogged ==
    /\ outcome.kind = "rows" => ~HasIndicator(outcome)
    /\ warnings =
           Cardinality({ i \in DOMAIN fetched : fetched[i] > max_result_rows })

\* a truncated result was returned, the warning logged, no indicator given
C16_Witness ==
    /\ pc = "done"
    /\ outcome.kind = "rows"
    /\ fetched # <<>>
    /\ fetched[1] > max_result_rows
    /\ Len(outcome.rows) = max_result_rows
    /\ warnings = 1
    /\ ~HasIndicator(outcome)

----------------------------------------------------------------------------
(* C19: a permitted statement takes the read path of execute_query if and  *)
(* only if its leading keyword is one of SELECT, WITH, SHOW, DESCRIBE,     *)
(* EXPLAIN, ANALYZE, and takes the commit path otherwise; no statement     *)
(* that read-only mode allows is followed by a commit.                     *)
C19_ReadPathByKeyword ==
    /\ pc \in {"fetch", "commit"} =>
           (pc = "fetch" <=> LeadingKeyword(sql) \in ReadOnlyKeywords)
    /\ (pc = "commit" \/ outcome.kind = "summary") =>
           ~validate_sql(sql, READONLY)

----------------------------------------------------------------------------
(* C17, as stated: a backend failure becomes a normal return value in two  *)
(* cases only, the empty result of get_table_indexes and                   *)
(* get_table_constraints and the False of the auto-discovery probe; in     *)
(* every other operation of the database layer it reaches the caller as    *)
(* an error.                                                               *)
IndexOperations == {"get_table_indexes", "get_table_constraints"}

BackendErrorRaised == outcome.kind = "raised" /\ outcome.type = ERR_BACKEND

C17_AsStated ==
    Finished =>
        /\ BackendFailed("probe") => schema_allowed = Result(FALSE)
        /\ (BackendFailed("main") /\ entry \in IndexOperations) =>
               outcome = Rows(<<>>)
        /\ ( /\ BackendFailed("main") \/ BackendFailed("direct")
             /\ entry \notin IndexOperations ) => outcome.kind = "raised"

(* C17, amended: a backend failure becomes a normal return value in three  *)
(* cases: get_table_indexes and get_table_constraints return an empty      *)
(* result, test_connection returns False, and the auto-discovery probe     *)
(* answers False, which a direct caller receives as False and an operation *)
(* with a schema argument turns into its schema error; in execute_query,   *)
(* get_all_tables, get_table_structure and get_available_schemas a backend *)
(* failure of their own statement reaches the caller as the backend error. *)
C17_FailureConversion ==
    Finished =>
        /\ BackendFailed("probe") =>
               /\ schema_allowed = Result(FALSE)
               /\ outcome =
                      IF entry = "_is_schema_allowed"
                      THEN Returned(FALSE)
                      ELSE SchemaNotAllowed(schema,
                                            _get_allowed_schemas_display)
        /\ BackendFailed("main") =>
               IF entry \in IndexOperations
               THEN outcome = Rows(<<>>)
               ELSE IF entry = "test_connection"
                    THEN outcome = Returned(FALSE)
                    ELSE BackendErrorRaised
        /\ BackendFailed("direct") => BackendErrorRaised

\* test_connection answered False after the backend had failed
C17_Witness ==
    /\ entry = "test_connection"
    /\ pc = "returned"
    /\ BackendFailed("main")
    /\ outcome = Returned(FALSE)

----------------------------------------------------------------------------
(* C20, as stated: every connection a call acquires is committed or rolled *)
(* back and then closed before the call returns or raises, on every exit   *)
(* path; none stays open and none is shared between two calls.             *)
C20_AsStated ==
    /\ Finished => (conn # "open" /\ opened = closed)
    /\ conn = "closed" => ~uncommitted
    /\ \A i, j \in DOMAIN executed :
           ( /\ i < j
             /\ executed[i].by = "execute_query"
             /\ executed[j].by = "execute_query" ) =>
               executed[i].on # executed[j].on

(* C20, amended: every connection a call acquires is closed before the     *)
(* call returns or raises, on every exit path, and every call of           *)
(* execute_query runs its statement on a connection of its own (the probe  *)
(* and the catalog statement of one operation use two connections); the    *)
(* code never rolls back: the commit path commits before the close, the    *)
(* read path and the paths on which the statement or the commit fails      *)
(* close the connection with the statement uncommitted.                    *)
C20_ConnectionsClosed ==
    /\ opened = closed + (IF conn = "open" THEN 1 ELSE 0)
    /\ Finished => (conn # "open" /\ opened = closed)
    /\ \A i, j \in DOMAIN executed :
           ( /\ i < j
             /\ executed[i].by = "execute_query"
             /\ executed[j].by = "execute_query" ) =>
               executed[i].on # executed[j].on
    /\ (pc = "done" /\ outcome.kind = "summary") => ~uncommitted
    /\ (pc = "done" /\ outcome.kind = "rows") => uncommitted
    /\ ( /\ pc = "done"
         /\ outcome.kind = "raised"
         /\ outcome.type = ERR_BACKEND
         /\ outcome.text \in {"fetchall", "commit"}
         /\ Issued(sql) ) => uncommitted

\* an operation ran its probe and its catalog statement on two connections,
\* both closed, the second with its statement uncommitted
C20_Witness ==
    /\ entry = "get_all_tables"
    /\ pc = "returned"
    /\ opened = 2
    /\ closed = 2
    /\ conn = "closed"
    /\ uncommitted
    /\ outcome.kind = "rows"

----------------------------------------------------------------------------
(* C22: the classification of a statement is a total function of its text  *)
(* alone: the leading keyword is the first whitespace-delimited token of   *)
(* the uppercased, trimmed text, the empty string for a blank text; it is  *)
(* in at most one of the read-only, write and dangerous keyword sets,      *)
(* which are pairwise disjoint, and unknown otherwise; a later call on the *)
(* same text, after validate_sql and in any mode, extracts the same        *)
(* keyword.                                                                *)
Blank(text) == \A i \in DOMAIN text : IsSpace(text[i])

CategoriesOf(keyword) ==
    { category \in {"ReadOnly", "Write", "Dangerous"} :
          \/ category = "ReadOnly" /\ keyword \in READONLY_OPERATIONS
          \/ category = "Write" /\ keyword \in WRITE_OPERATIONS
          \/ category = "Dangerous" /\ keyword \in DANGEROUS_OPERATIONS }

C22_ClassifyIsAFunctionOfTheText ==
    LET keyword == _extract_first_keyword(strip(upper(sql)))
    IN  /\ keyword = LeadingKeyword(sql)
        /\ Blank(sql) <=> keyword = <<>>
        /\ \A i \in DOMAIN keyword : ~IsSpace(keyword[i])
        /\ Cardinality(CategoriesOf(keyword)) <= 1
        /\ READONLY_OPERATIONS \cap WRITE_OPERATIONS = {}
        /\ READONLY_OPERATIONS \cap DANGEROUS_OPERATIONS = {}
        /\ WRITE_OPERATIONS \cap DANGEROUS_OPERATIONS = {}
        /\ message # Unset => message[1][2] = keyword

\* get_error_message extracted INSERT again from a two-word statement that
\* validate_sql had classified as a write
C22_Witness ==
    /\ security_mode = READONLY
    /\ Denied
    /\ message # Unset
    /\ message[1] = <<MSG_READONLY_WRITE, KW_INSERT>>
    /\ Len(split(strip(upper(sql)))) >= 2
    /\ CategoriesOf(LeadingKeyword(sql)) = {"Write"}

----------------------------------------------------------------------------
(* C23: in limited-write mode no statement of a caller whose uppercased    *)
(* text contains DELETE, DROP, CREATE, ALTER, TRUNCATE, GRANT or REVOKE    *)
(* anywhere, inside an identifier too, reaches the backend: the call is    *)
(* refused before a connection is opened.                                  *)
C23_DangerousNeverReachesBackend ==
    ( /\ security_mode = LIMITED_WRITE
      /\ entry \in {"execute_query", "execute_safe_query"}
      /\ Contains(upper(sql), KW_DELETE) \/ Contains(upper(sql), KW_DROP)
           \/ Contains(upper(sql), KW_CREATE) \/ Contains(upper(sql), KW_ALTER)
           \/ Contains(upper(sql), KW_TRUNCATE) \/ Contains(upper(sql), KW_GRANT)
           \/ Contains(upper(sql), KW_REVOKE) ) =>
        /\ ~Issued(sql)
        /\ conn = "none"
        /\ opened = 0
        /\ executed = <<>>
        /\ pc \notin {"idle", "safe_validate", "validate"} =>
               (pc = "done" /\ PolicyRefused)

\* a SELECT of an identifier that ends in DROP was refused, no connection
C23_Witness ==
    /\ security_mode = LIMITED_WRITE
    /\ entry = "execute_query"
    /\ pc = "done"
    /\ LeadingKeyword(sql) = KW_SELECT
    /\ Contains(upper(sql), KW_DROP)
    /\ ~AnyOccursAsToken(sql, DangerousKeywords)
    /\ outcome = Raised("ValueError", ERR_POLICY)
    /\ opened = 0

----------------------------------------------------------------------------
(* C21: the answers of _is_schema_allowed are never cached. Every call on  *)
(* the instance computes its answer anew: with auto discovery it hands the *)
(* probe statement to execute_safe_query again and answers True exactly    *)
(* when that probe of its own reached the database and returned a row, so  *)
(* a schema that appeared or disappeared since an earlier call is answered *)
(* by the present catalog and not by the earlier answer; with a configured *)
(* list it answers by the list, and with all schemas allowed it answers    *)
(* True, both without a probe.                                             *)
C21_NoCaching ==
    \A i \in DOMAIN history :
        /\ is_auto_discover_schemas =>
               /\ history[i].probed
               /\ history[i].answer <=>
                      /\ history[i].issued
                      /\ history[i].rows # <<>>
                      /\ history[i].rows[1] >= 1
        /\ is_all_schemas_allowed => (history[i].answer /\ ~history[i].probed)
        /\ (~is_auto_discover_schemas /\ ~is_all_schemas_allowed) =>
               /\ ~history[i].probed
               /\ history[i].answer <=>
                      schema_in_allowed_schemas(history[i].schema)

\* the schema was visible at the first call and gone at the second: the
\* second probe returned no row and the second answer is False
C21_Witness ==
    /\ is_auto_discover_schemas
    /\ pc = "returned"
    /\ Len(history) = 2
    /\ history[1].schema = history[2].schema
    /\ history[1].answer
    /\ history[2].probed
    /\ history[2].issued
    /\ history[2].rows = <<0>>
    /\ ~history[2].answer
    /\ outcome = Returned(FALSE)

----------------------------------------------------------------------------
(* C24: handle_call_tool is total. Whatever the tool name, the arguments   *)
(* and the failure of the policy, of the schema check or of the backend,   *)
(* a call that has started comes to its return (it can always take its     *)
(* next step until it has returned, and every step brings it closer to the *)
(* return), and what it returns is a text response, never an exception     *)
(* handed to the protocol layer; a call                                    *)
(* of describe_table or generate_table_doc without table_name, or of       *)
(* execute_query without sql, returns an error text and no method of the   *)
(* database instance is called, so no connection is opened and no          *)
(* statement is issued.                                                    *)
MissingRequiredArgument ==
    \/ /\ handler.name \in {"describe_table", "generate_table_doc"}
       /\ (not_arguments(handler.arguments)
               \/ ~in_arguments("table_name", handler.arguments))
    \/ /\ handler.name = "execute_query"
       /\ (not_arguments(handler.arguments)
               \/ ~in_arguments("sql", handler.arguments))

\* the call under way can take a step
CanStep ==
    \/ pc \in {"safe_validate", "validate"}
    \/ ENABLED (ResolveSchema \/ ProbeReturn \/ Connect \/ SessionSetup
                   \/ Execute \/ Fetch \/ Commit \/ OperationReturn
                   \/ HandleNextOperation \/ HandleResult
                   \/ HandleException)

\* how far the call is from its return: the database methods the tool has
\* still to call, the statements the method under way has still to run,
\* and the steps left of the statement under way
StepsLeft ==
    LET methods == CASE entry = "get_table_structure" -> 3
                     [] entry = "get_table_indexes" -> 2
                     [] OTHER -> 1
        statements == CASE stage = "resolve" -> 3
                        [] stage = "probe" -> 2
                        [] OTHER -> 1
        steps == CASE pc = "resolve" -> 10
                   [] pc = "safe_validate" -> 9
                   [] pc = "validate" -> 8
                   [] pc = "connect" -> 7
                   [] pc = "session" -> 6
                   [] pc = "execute" -> 5
                   [] pc \in {"fetch", "commit"} -> 4
                   [] pc = "done" -> 1
                   [] OTHER -> 0
    IN  CASE handler.at = "responded" -> 0
          [] handler.at = "idle" -> 1000
          [] OTHER -> 100 * methods + 11 * statements + steps + 1

C24_TextResponse ==
    /\ handler.at = "waiting" => CanStep
    /\ handler.at = "responded" => handler.response[1].type = "text"
    /\ handler.at # "responded" => handler.response = Unset
    /\ (handler.at # "idle" /\ handler.name \notin ToolNames) =>
           /\ handler.at = "responded"
           /\ handler.response[1].text \in {TXT_UNKNOWN_TOOL, TXT_TOOL_FAILED}
           /\ entry = "none"
    /\ (handler.at # "idle" /\ MissingRequiredArgument) =>
           /\ handler.at = "responded"
           /\ handler.response[1].text \in
                  {TXT_MISSING_TABLE_NAME, TXT_MISSING_SQL, TXT_TOOL_FAILED}
           /\ entry = "none"
           /\ opened = 0
           /\ executed = <<>>

C24_HandlerIsTotal ==
    /\ []C24_TextResponse
    /\ [][StepsLeft' < StepsLeft]_vars

\* the schema check refused describe_table: get_table_structure raised and
\* the handler answered with the text of its outer except clause
C24_Witness ==
    /\ handler.at = "responded"
    /\ handler.name = "describe_table"
    /\ ~not_arguments(handler.arguments)
    /\ in_arguments("table_name", handler.arguments)
    /\ entry = "get_table_structure"
    /\ outcome.kind = "raised"
    /\ outcome.text = ERR_SCHEMA
    /\ handler.response = Result(TextContent(TXT_TOOL_FAILED))

====
